---- MODULE Spec2Model ----
(***************************************************************************)
(* dm-verity read-time verification (src/unnamed/part_002, lines 2305..).  *)
(*                                                                         *)
(* The model follows the C code: struct dm_verity is the record v, the     *)
(* dm-bufio cache of hash blocks (with struct buffer_aux) is bufio, and    *)
(* every in-flight struct dm_verity_io together with the locals of the     *)
(* functions running on its behalf is one entry of io.  Each action is one *)
(* step of verity_map / verity_end_io / verity_work / verity_verify_io /   *)
(* verity_hash_for_block / verity_verify_level / verity_handle_err /       *)
(* verity_finish_io; steps are cut where shared state is touched.          *)
(*                                                                         *)
(* Digests are an ideal (collision-free) hash: the digest of a byte stream *)
(* is a one-symbol string whose symbol is the stream itself, so two        *)
(* digests are equal iff the hashed streams (salt placement included) are. *)
(***************************************************************************)
EXTENDS Integers, Sequences, FiniteSets, TLC

(***************************************************************************)
(* Bounds of the model.                                                    *)
(***************************************************************************)
MaxIos == 2
MaxFaults == 1
MaxCorrupt == 1
MaxEvict == 1
MaxReqBlocks == 2
MaxErrCalls == 102

(***************************************************************************)
(* Program constants.                                                      *)
(***************************************************************************)
DM_VERITY_MAX_CORRUPTED_ERRS == 100
DM_MAX_ERR_COUNT == 4
EIO == 5
ENOMEM == 12

DM_VERITY_MODE_EIO == "EIO"
DM_VERITY_MODE_LOGGING == "LOGGING"
DM_VERITY_MODE_RESTART == "RESTART"
DM_VERITY_BLOCK_TYPE_DATA == "DATA"
DM_VERITY_BLOCK_TYPE_METADATA == "METADATA"

Modes == {DM_VERITY_MODE_EIO, DM_VERITY_MODE_LOGGING, DM_VERITY_MODE_RESTART}
BlockTypes == {DM_VERITY_BLOCK_TYPE_DATA, DM_VERITY_BLOCK_TYPE_METADATA}

(***************************************************************************)
(* Integer helpers for the C shift and bit operators.                      *)
(***************************************************************************)
RECURSIVE Pow2(_)
Pow2(n) == IF n <= 0 THEN 1 ELSE 2 * Pow2(n - 1)

Shr(a, n) == a \div Pow2(n)

Shl(a, n) == a * Pow2(n)

RECURSIVE fls(_)
fls(x) == IF x <= 1 THEN 0 ELSE 1 + fls(x \div 2)

(***************************************************************************)
(* The target's table line as parsed by verity_ctr: a device of four data  *)
(* blocks of two bytes, hash blocks of two bytes, one-symbol digests.      *)
(***************************************************************************)
data_dev_block_bits == 1
hash_dev_block_bits == 1
digest_size == 1
data_blocks == 4
hash_start == 1
salt == <<7>>

hash_per_block_bits == fls(Pow2(hash_dev_block_bits) \div digest_size)

RECURSIVE LevelsFrom(_, _, _)
LevelsFrom(nblocks, hpb, l) ==
    IF hpb * l < 64 /\ Shr(nblocks - 1, hpb * l) # 0
    THEN LevelsFrom(nblocks, hpb, l + 1)
    ELSE l

levels == IF data_blocks # 0 THEN LevelsFrom(data_blocks, hash_per_block_bits, 0) ELSE 0

LevelSize(nblocks, hpb, i) ==
    Shr(nblocks + Shl(1, (i + 1) * hpb) - 1, (i + 1) * hpb)

RECURSIVE HashPositionAfter(_, _, _, _, _)
HashPositionAfter(start, nblocks, hpb, nlevels, i) ==
    IF i >= nlevels THEN start
    ELSE HashPositionAfter(start, nblocks, hpb, nlevels, i + 1)
         + LevelSize(nblocks, hpb, i)

hash_level_block(i) ==
    HashPositionAfter(hash_start, data_blocks, hash_per_block_bits, levels, i + 1)

hash_blocks ==
    HashPositionAfter(hash_start, data_blocks, hash_per_block_bits, levels, 0)

DataBlocks == 0 .. data_blocks - 1
HashBlocks == hash_start .. hash_blocks - 1
Levels == 0 .. levels - 1
DataBlockSize == Pow2(data_dev_block_bits)
HashBlockSize == Pow2(hash_dev_block_bits)

(***************************************************************************)
(* verity_position_at_level and verity_hash_at_level.                      *)
(***************************************************************************)
verity_position_at_level(block, level) ==
    Shr(block, level * hash_per_block_bits)

HashOffsetOfIdx(version, idx) ==
    IF version = 0 THEN idx * digest_size
    ELSE Shl(idx, hash_dev_block_bits - hash_per_block_bits)

verity_hash_at_level(version, block, level) ==
    LET position == verity_position_at_level(block, level)
        idx == position % Pow2(hash_per_block_bits)
    IN  [hash_block |-> hash_level_block(level) + Shr(position, hash_per_block_bits),
         offset |-> HashOffsetOfIdx(version, idx)]

(***************************************************************************)
(* The digest engines.  tfm_sha2ce is the accelerated engine selected by   *)
(* count = 0, tfm_sha256 the software engine selected by count # 0.  A     *)
(* shash_desc is the transform and the stream fed to it so far.  The       *)
(* accelerated engine can return a wrong digest ("glitch"); either engine  *)
(* can fail with an error ("err").                                         *)
(***************************************************************************)
EngineOutcomes(count) == IF count = 0 THEN {"ok", "glitch", "err"} ELSE {"ok", "err"}

crypto_shash_final(st, outcome) ==
    IF outcome = "glitch" THEN << st \o <<"glitch">> >> ELSE << st >>

verity_hash_init(version, count) ==
    [tfm |-> IF count # 0 THEN "sha256" ELSE "sha2ce",
     st |-> IF version >= 1 THEN salt ELSE <<>>]

verity_hash_update(desc, data) == [desc EXCEPT !.st = @ \o data]

verity_hash_final(version, desc, outcome) ==
    crypto_shash_final(IF version = 0 THEN desc.st \o salt ELSE desc.st, outcome)

verity_hash_sel_sha(version, data, count, outcome) ==
    IF outcome = "err"
    THEN [r |-> -ENOMEM, digest |-> <<>>]
    ELSE [r |-> 0,
          digest |-> verity_hash_final(version,
                        verity_hash_update(verity_hash_init(version, count), data),
                        outcome)]

verity_hash(version, data) == verity_hash_sel_sha(version, data, 0, "ok").digest

(***************************************************************************)
(* The devices.  The hash tree certified by root_digest is built over the  *)
(* intact data; data block ZeroBlock is all zero.  A damaged data block    *)
(* has its first byte changed; a damaged hash block has the digest in its  *)
(* last slot replaced by the digest of the damaged child.                  *)
(***************************************************************************)
ZeroBlock == 1
ZeroData == [k \in 1 .. DataBlockSize |-> 0]

GoodData(j) == IF j = ZeroBlock THEN ZeroData ELSE [k \in 1 .. DataBlockSize |-> j + 1]

BadData(j) == [k \in 1 .. DataBlockSize |-> IF k = 1 THEN 9 ELSE GoodData(j)[k]]

LevelOf(hb) == CHOOSE l \in Levels :
    /\ hash_level_block(l) <= hb
    /\ \A m \in Levels : hash_level_block(m) <= hb => hash_level_block(m) <= hash_level_block(l)

IndexOf(hb) == hb - hash_level_block(LevelOf(hb))

HashesPerBlock == Pow2(hash_per_block_bits)

\* The bytes of a hash block holding the digests dg[0], dg[1], ... at the
\* offsets verity_hash_at_level computes; bytes between the slots are zero.
HashBlockBytes(version, dg) ==
    [p \in 1 .. HashBlockSize |->
        IF \E idx \in 0 .. HashesPerBlock - 1 :
              /\ HashOffsetOfIdx(version, idx) < p
              /\ p <= HashOffsetOfIdx(version, idx) + digest_size
        THEN LET idx == CHOOSE i \in 0 .. HashesPerBlock - 1 :
                            /\ HashOffsetOfIdx(version, i) < p
                            /\ p <= HashOffsetOfIdx(version, i) + digest_size
             IN  dg[idx][p - HashOffsetOfIdx(version, idx)]
        ELSE 0]

RECURSIVE TreeBlock(_, _, _, _)
\* Content of hash block k of a level; with bad, the last slot holds the
\* digest of the damaged child instead of the digest of the intact one.
TreeBlock(version, level, k, bad) ==
    HashBlockBytes(version,
        [idx \in 0 .. HashesPerBlock - 1 |->
            LET c == k * HashesPerBlock + idx
                useBad == bad /\ idx = HashesPerBlock - 1
            IN  IF level = 0
                THEN IF c < data_blocks
                     THEN verity_hash(version, IF useBad THEN BadData(c) ELSE GoodData(c))
                     ELSE [q \in 1 .. digest_size |-> 0]
                ELSE verity_hash(version, TreeBlock(version, level - 1, c, useBad))])

\* the intact and the damaged content of every hash block, per version
TreeBlocks ==
    [bad \in BOOLEAN |->
        [version \in {0, 1} |->
            [hb \in HashBlocks |-> TreeBlock(version, LevelOf(hb), IndexOf(hb), bad)]]]

GoodHash(version, hb) == TreeBlocks[FALSE][version][hb]

BadHash(version, hb) == TreeBlocks[TRUE][version][hb]

RootDigest(version) == verity_hash(version, TreeBlock(version, levels - 1, 0, FALSE))

\* verity_alloc_zero_digest
verity_alloc_zero_digest(version) == verity_hash(version, ZeroData)

(***************************************************************************)
(* State.                                                                  *)
(***************************************************************************)
VARIABLES
    v,          \* struct dm_verity: configuration, hash_failed, corrupted_errs
    hw_retry,   \* the build defines CONFIG_DM_VERITY_HW_RETRY
    nv,         \* the persisted "VMODE" item read by verity_read_nv
    disk_data,  \* content of the data device, per data block
    disk_hash,  \* content of the hash device, per hash block
    bufio,      \* dm-bufio cache: per hash block, buffer data and buffer_aux
    io,         \* per request slot: struct dm_verity_io, its bio, the locals
    uevents,    \* number of kobject_uevent_env calls made so far
    n_ios,      \* requests accepted so far
    n_faults,   \* engine, storage and nv faults injected so far
    n_corrupt,  \* device blocks damaged so far
    n_evict     \* buffers reclaimed so far

vars == <<v, hw_retry, nv, disk_data, disk_hash, bufio, io, uevents,
          n_ios, n_faults, n_corrupt, n_evict>>

IoSlots == {1, 2}
NoBuf == -1
NoDigest == <<>>
NoBuffer == [present |-> FALSE, data |-> <<>>, hash_verified |-> FALSE]

\* A free request slot.  The fields from env_err on are history kept for
\* stating properties; the code has no such fields.  log is the sequence
\* of steps the request has made so far, rd_err the error of its storage read.
IoIdle ==
    [pc |-> "idle", block |-> 0, n_blocks |-> 0, iter |-> 0, b |-> 0,
     bio_data |-> <<>>, bi_error |-> 0,
     retry_count |-> 0, is_zero |-> FALSE, start |-> 0, start_retry |-> 0,
     want_digest |-> NoDigest, real_digest |-> NoDigest, r |-> 0,
     hfb_short |-> FALSE, hfb_i |-> 0,
     vl_level |-> 0, vl_skip |-> FALSE, vl_retry |-> 0, buf |-> NoBuf,
     he_type |-> DM_VERITY_BLOCK_TYPE_DATA, he_block |-> 0, he_ret |-> 0,
     he_from |-> "none",
     env_err |-> FALSE, orig_data |-> <<>>, errs0 |-> 0, failed0 |-> 0,
     tree0 |-> FALSE, bad0 |-> {}, n_he |-> 0, n_zero |-> 0,
     he_pre |-> 0, he_uev |-> 0, he_sent |-> FALSE,
     he_nv |-> 0, he_flag |-> 0, he_nvo |-> "ok",
     ev_type |-> "none", ev_block |-> 0, log |-> <<>>, rd_err |-> 0,
     vl_want |-> NoDigest]

IoOff == [IoIdle EXCEPT !.pc = "off"]

\* History: the step `op` with result `res` that the request of rec has
\* just made on block `block` of type `type` while verifying its block b.
Logged(rec, op, type, block, res) ==
    [rec EXCEPT !.log = Append(@, [op |-> op, type |-> type, block |-> block,
                                   b |-> rec.b, res |-> res])]

\* The content a request for blocks block .. block+n-1 reads from the data device.
RECURSIVE ReadData(_, _, _)
ReadData(dd, block, n) ==
    IF n = 0 THEN <<>> ELSE dd[block] \o ReadData(dd, block + 1, n - 1)

GoodRange(block, n) == ReadData([j \in DataBlocks |-> GoodData(j)], block, n)

\* Replace the bytes at 0-based positions from .. from+Len(bytes)-1.
Overwrite(data, from, bytes) ==
    [p \in 1 .. Len(data) |->
        IF from < p /\ p <= from + Len(bytes) THEN bytes[p - from] ELSE data[p]]

\* The hash blocks on the path from data block d to the root.
PathOf(version, d) == {verity_hash_at_level(version, d, l).hash_block : l \in Levels}

\* The hash blocks verity_hash_for_block can touch for a request.
PathBlocks(version, block, n) ==
    UNION {PathOf(version, d) : d \in block .. block + n - 1}

\* What a read of hash block hb returns now: the buffer if cached, else the device.
HashContent(hb) == IF bufio[hb].present THEN bufio[hb].data ELSE disk_hash[hb]

HashVerified(hb) == bufio[hb].present /\ bufio[hb].hash_verified

\* the hash blocks of the request read as the tree under root_digest says
TreeIntact(block, n) ==
    \A hb \in PathBlocks(v.version, block, n) : HashContent(hb) = GoodHash(v.version, hb)

\* The damaged hash blocks the walk for the request has to hash: on the
\* path of a block d of the request, not marked verified, and not below a
\* level-0 block of d that is marked verified.
BadOnWalk(block, n) ==
    {hb \in HashBlocks :
        /\ HashContent(hb) # GoodHash(v.version, hb)
        /\ ~HashVerified(hb)
        /\ \E d \in block .. block + n - 1 :
              /\ hb \in PathOf(v.version, d)
              /\ ~HashVerified(verity_hash_at_level(v.version, d, 0).hash_block)}

(***************************************************************************)
(* Initial states.                                                         *)
(***************************************************************************)
\* the callback leaving the flag set
dm_bufio_alloc_callback_Set == TRUE

\* dm_bufio_alloc_callback: the value of hash_verified of a fresh buffer
dm_bufio_alloc_callback == FALSE

\* verity_ctr and verity_parse_opt_args: the fields of struct dm_verity
verity_ctr(version, mode, fec, ign_zeroes) ==
    [version |-> version, mode |-> mode, fec |-> fec,
     root_digest |-> RootDigest(version),
     zero_digest |-> IF ign_zeroes THEN verity_alloc_zero_digest(version) ELSE NoDigest,
     hash_failed |-> 0, corrupted_errs |-> 0, verify_failed_flag |-> 0]

InitDevices(version) ==
    /\ disk_data = [j \in DataBlocks |-> GoodData(j)]
    /\ disk_hash = [hb \in HashBlocks |-> GoodHash(version, hb)]
    /\ bufio = [hb \in HashBlocks |-> NoBuffer]
    /\ uevents = 0
    /\ n_ios = 0 /\ n_faults = 0 /\ n_corrupt = 0 /\ n_evict = 0

\* One worker; every mode and option of the table line.  A restart-mode
\* target runs on the build with CONFIG_DM_VERITY_HW_RETRY, one recorded
\* attempt short of DM_MAX_ERR_COUNT.
Init ==
    /\ \E mode \in Modes, fec \in BOOLEAN, z \in BOOLEAN :
          v = verity_ctr(1, mode, fec, z)
    /\ hw_retry = (v.mode = DM_VERITY_MODE_RESTART)
    /\ nv = DM_MAX_ERR_COUNT - 1
    /\ InitDevices(1)
    /\ io = [w \in IoSlots |-> IF w = 1 THEN IoIdle ELSE IoOff]

verity_fec_is_enabled(vv) == vv.fec

\* line 3072 left out: bi_error stays what the storage read left
verity_finish_io_KeepError(rec, error) == [rec EXCEPT !.pc = "done"]

\* verity_finish_io: the bio is ended with the given error
verity_finish_io(rec, error) == [rec EXCEPT !.pc = "done", !.bi_error = error]

(***************************************************************************)
(* verity_handle_err.                                                      *)
(***************************************************************************)
\* the test of line 2691 written with > for >=
CorruptedErrsSaturated_OffByOne(errs) == errs > DM_VERITY_MAX_CORRUPTED_ERRS

\* line 2691: the counter has reached the maximum
CorruptedErrsSaturated(errs) == errs >= DM_VERITY_MAX_CORRUPTED_ERRS

\* line 2689 left out
HashFailedAfterErr_Keep(old) == old

\* line 2689: v->hash_failed after the call, whatever it was before
HashFailedAfterErr(old) == 1

\* lines 2691-2694: the counter after the call
CorruptedErrsAfterErr(errs) == IF CorruptedErrsSaturated(errs) THEN errs ELSE errs + 1

\* the uevent sent before the test of line 2691
UeventsAfterErr_Always(errs, sent) == sent + 1

\* lines 2691-2716: the number of uevents sent after the call; none is
\* sent once the counter is at the maximum
UeventsAfterErr(errs, sent) == IF CorruptedErrsSaturated(errs) THEN sent ELSE sent + 1

\* verity_read_nv: -1 when the read fails, else the stored byte
verity_read_nv(value, nvo) == IF nvo = "rdfail" THEN -1 ELSE value

\* lines 2732-2734 without the cap
NvNextValue_NoCap(value) == value + 1

\* lines 2731-2734: the value written back by the HW-retry branch
NvNextValue(value) == IF value >= DM_MAX_ERR_COUNT THEN DM_MAX_ERR_COUNT ELSE value + 1

\* ret initialised to 0 in line 2685
HandleErrModeRet_AlwaysContinue(mode, hw, value) == 0

\* lines 2718-2719 left out: logging mode falls through to "return ret"
HandleErrModeRet_LoggingFails(mode, hw, value) ==
    IF mode = DM_VERITY_MODE_RESTART
    THEN IF hw /\ value >= 0 /\ value = DM_MAX_ERR_COUNT THEN 1 ELSE 0
    ELSE 1

\* lines 2718-2745: the value returned once the event has been counted
\* and announced; value is what verity_read_nv returned
HandleErrModeRet(mode, hw, value) ==
    IF mode = DM_VERITY_MODE_LOGGING THEN 0
    ELSE IF mode = DM_VERITY_MODE_RESTART
         THEN IF hw /\ value >= 0 /\ value = DM_MAX_ERR_COUNT THEN 1 ELSE 0
         ELSE 1

\* where verity_handle_err returns to
HeReturnPc(from) ==
    CASE from = "level" -> "vl_he_ret"
      [] from = "io" -> "io_he_ret"
      [] OTHER -> "he_done"

\* the call of verity_handle_err(v, type, block) from place `from`
CallHandleErr(rec, type, block, from) ==
    [rec EXCEPT !.pc = "he", !.he_type = type, !.he_block = block,
                !.he_from = from, !.he_pre = v.corrupted_errs, !.he_uev = uevents,
                !.he_sent = FALSE, !.he_nv = nv, !.he_flag = v.verify_failed_flag,
                !.he_nvo = "ok", !.n_he = @ + 1]

\* verity_handle_err: mark the target; at the maximum return 1 at once;
\* else count, log, send the uevent and decide by mode
verity_handle_err(w, nvo) ==
    /\ io[w].pc = "he"
    /\ nvo \in {"ok", "rdfail", "wrfail"}
    /\ LET me == io[w]
           sat == CorruptedErrsSaturated(v.corrupted_errs)
           restart == ~sat /\ v.mode = DM_VERITY_MODE_RESTART /\ hw_retry
           value == IF restart THEN verity_read_nv(nv, nvo) ELSE 0
           record == restart /\ value >= 0 /\ value # DM_MAX_ERR_COUNT
                     /\ v.verify_failed_flag = 0
       IN  /\ (nvo # "ok" => restart /\ n_faults < MaxFaults)
           /\ (nvo = "wrfail" => record)
           /\ n_faults' = IF nvo # "ok" THEN n_faults + 1 ELSE n_faults
           /\ v' = [v EXCEPT !.hash_failed = HashFailedAfterErr(@),
                             !.corrupted_errs = CorruptedErrsAfterErr(@),
                             !.verify_failed_flag = IF record THEN 1 ELSE @]
           /\ uevents' = UeventsAfterErr(v.corrupted_errs, uevents)
           /\ nv' = IF record /\ nvo = "ok" THEN NvNextValue(value) ELSE nv
           /\ io' = [io EXCEPT ![w] =
                        [me EXCEPT !.he_ret = IF sat THEN 1
                                             ELSE HandleErrModeRet(v.mode, hw_retry, value),
                                   !.he_sent = ~sat, !.he_nvo = nvo,
                                   !.ev_type = IF sat THEN "none" ELSE me.he_type,
                                   !.ev_block = IF sat THEN 0 ELSE me.he_block,
                                   !.pc = HeReturnPc(me.he_from)]]
    /\ UNCHANGED <<hw_retry, disk_data, disk_hash, bufio, n_ios, n_corrupt, n_evict>>

\* the frame of a returned verity_handle_err call is gone
HeForget(rec) ==
    [rec EXCEPT !.he_type = IoIdle.he_type, !.he_block = 0, !.he_ret = 0,
                !.he_from = "none", !.he_pre = 0, !.he_uev = 0, !.he_sent = FALSE,
                !.he_nv = 0, !.he_flag = 0, !.he_nvo = "ok"]

(***************************************************************************)
(* verity_fec_decode (dm-verity-fec.c): with FEC disabled it fails; with   *)
(* FEC enabled it either fails or stores the block's intact content.       *)
(***************************************************************************)
\* verity_status, line 3216: the first character of the status line
verity_status(vv) == IF vv.hash_failed # 0 THEN "C" ELSE "V"

FecOutcomes(vv) == IF verity_fec_is_enabled(vv) THEN {"ok", "fail"} ELSE {"fail"}

(***************************************************************************)
(* verity_hash_for_block: the walk over the levels.  The steps between two *)
(* verity_verify_level calls touch only locals and are part of the action  *)
(* that returns from the call.                                             *)
(***************************************************************************)
\* the call of verity_verify_level(v, io, block, level, skip_unverified, digest)
CallVerifyLevel(rec, level, skip) ==
    [Logged(rec, "level", DM_VERITY_BLOCK_TYPE_METADATA,
            verity_hash_at_level(v.version, rec.block + rec.b, level).hash_block,
            IF skip THEN "skip" ELSE "verify")
        EXCEPT !.pc = "vl_read", !.vl_level = level, !.vl_skip = skip, !.vl_retry = 0]

\* lines 2889-2892
IsZero(r, zero_digest, digest) ==
    IF r = 0 /\ zero_digest # NoDigest THEN zero_digest = digest ELSE FALSE

\* lines 2888-2894: set *is_zero and return r to verity_verify_io
HashForBlockOut(rec) ==
    [rec EXCEPT !.is_zero = IsZero(rec.r, v.zero_digest, rec.want_digest),
                !.hfb_short = FALSE, !.hfb_i = 0, !.vl_level = 0, !.vl_skip = FALSE,
                !.vl_want = NoDigest, !.pc = "io_hfb_ret"]

\* the loop of lines 2881-2887 from level i downwards
HashForBlockLoop(rec, i) ==
    IF i >= 0
    THEN CallVerifyLevel([rec EXCEPT !.hfb_short = FALSE, !.hfb_i = i], i, FALSE)
    ELSE HashForBlockOut(rec)

\* lines 2866-2879: entry; with levels > 0 try the level-0 block first
HashForBlockEnter(rec) ==
    IF levels # 0
    THEN CallVerifyLevel([rec EXCEPT !.r = 0, !.hfb_short = TRUE], 0, TRUE)
    ELSE HashForBlockLoop([rec EXCEPT !.r = 0, !.want_digest = v.root_digest],
                          levels - 1)

\* the memcpy of root_digest in line 2881 left out
HashForBlockRet_NoRootDigest(rec) ==
    IF rec.hfb_short
    THEN IF rec.r <= 0
         THEN HashForBlockOut(rec)
         ELSE HashForBlockLoop(rec, levels - 1)
    ELSE IF rec.r # 0
         THEN HashForBlockOut(rec)
         ELSE HashForBlockLoop(rec, rec.hfb_i - 1)

\* the loop going on to the next level whatever the call returned
WalkStops_Never(r) == FALSE

\* lines 2885-2886: if (unlikely(r)) goto out
WalkStops(r) == r # 0

\* lines 2876-2887: a verity_verify_level call has returned rec.r
HashForBlockRet(rec) ==
    IF rec.hfb_short
    THEN IF rec.r <= 0
         THEN HashForBlockOut(rec)
         ELSE HashForBlockLoop([rec EXCEPT !.want_digest = v.root_digest], levels - 1)
    ELSE IF WalkStops(rec.r)
         THEN HashForBlockOut(rec)
         ELSE HashForBlockLoop(rec, rec.hfb_i - 1)

(***************************************************************************)
(* verity_verify_level, one step per access to the shared buffer.          *)
(***************************************************************************)
VlPos(rec) == verity_hash_at_level(v.version, rec.block + rec.b, rec.vl_level)

\* the flag assigned the result of the comparison
HashVerifiedAfterCmp_Assign(match, old) == match

\* lines 2799-2801: the flag after comparing real_digest with want_digest
HashVerifiedAfterCmp(match, old) == IF match THEN TRUE ELSE old

\* verity_verify_level returns r to verity_hash_for_block; vl_want records
\* the digest buffer as the call leaves it
VerifyLevelReturn(rec, r) ==
    HashForBlockRet([rec EXCEPT !.r = r, !.real_digest = NoDigest, !.vl_retry = 0,
                                !.vl_want = rec.want_digest])

\* the return of line 2787 without passing release_ret_r
VerifyLevelRelease_NotOnSkip(rec, hb, r) ==
    IF r = 1 THEN VerifyLevelReturn([rec EXCEPT !.buf = hb], r)
    ELSE VerifyLevelReturn(
            [Logged(rec, "rel", DM_VERITY_BLOCK_TYPE_METADATA, hb, "ok")
                EXCEPT !.buf = NoBuf], r)

\* lines 2854-2856 (release_ret_r): dm_bufio_release(buf) and return r
VerifyLevelRelease(rec, hb, r) ==
    VerifyLevelReturn(
        [Logged(rec, "rel", DM_VERITY_BLOCK_TYPE_METADATA, hb, "ok")
            EXCEPT !.buf = NoBuf], r)

\* the unverified block hashed whatever skip_unverified says
SkipsUnverified_Never(skip_unverified) == FALSE

\* line 2785: if (skip_unverified)
SkipsUnverified(skip_unverified) == skip_unverified

\* lines 2777-2790: dm_bufio_read, then the test of aux->hash_verified
verify_level_read(w, so) ==
    /\ io[w].pc = "vl_read"
    /\ so \in {"ok", "err"}
    /\ (so # "ok" => n_faults < MaxFaults)
    /\ n_faults' = IF so # "ok" THEN n_faults + 1 ELSE n_faults
    /\ LET me == io[w]
           hb == VlPos(me).hash_block
           fresh == [present |-> TRUE, data |-> disk_hash[hb],
                     hash_verified |-> dm_bufio_alloc_callback]
           buf == IF bufio[hb].present THEN bufio[hb] ELSE fresh
           got == [Logged(me, "read", DM_VERITY_BLOCK_TYPE_METADATA, hb,
                          IF buf.hash_verified THEN "verified" ELSE "unverified")
                      EXCEPT !.buf = hb]
       IN  IF so = "err"
           THEN /\ io' = [io EXCEPT ![w] =
                            VerifyLevelReturn(
                               [Logged(me, "read", DM_VERITY_BLOCK_TYPE_METADATA, hb, "err")
                                   EXCEPT !.env_err = TRUE], -EIO)]
                /\ UNCHANGED bufio
           ELSE /\ bufio' = [bufio EXCEPT ![hb] = buf]
                /\ io' = [io EXCEPT ![w] =
                     IF buf.hash_verified
                     THEN [got EXCEPT !.pc = "vl_copy"]
                     ELSE IF SkipsUnverified(me.vl_skip)
                          THEN VerifyLevelRelease(got, hb, 1)
                          ELSE [got EXCEPT !.vl_retry = 0, !.pc = "vl_hash"]]
    /\ UNCHANGED <<v, hw_retry, nv, disk_data, disk_hash, uevents, n_ios, n_corrupt, n_evict>>

\* the result of the engine not tested
EngineFailed_Never(r) == FALSE

\* lines 2796, 2991, 3004, 3008: if (unlikely(r < 0))
EngineFailed(r) == r < 0

\* lines 2792-2797: hash the buffer with the engine retry_count selects
verify_level_hash(w, eo) ==
    /\ io[w].pc = "vl_hash"
    /\ eo \in EngineOutcomes(io[w].vl_retry)
    /\ (eo # "ok" => n_faults < MaxFaults)
    /\ n_faults' = IF eo # "ok" THEN n_faults + 1 ELSE n_faults
    /\ LET me == io[w]
           res == verity_hash_sel_sha(v.version, bufio[me.buf].data, me.vl_retry, eo)
           tfm == verity_hash_init(v.version, me.vl_retry).tfm
           hashed == Logged(me, tfm, DM_VERITY_BLOCK_TYPE_METADATA, me.buf,
                            IF res.r < 0 THEN "err" ELSE "ok")
       IN  io' = [io EXCEPT ![w] =
                    IF EngineFailed(res.r)
                    THEN VerifyLevelRelease([hashed EXCEPT !.env_err = TRUE], me.buf, res.r)
                    ELSE [hashed EXCEPT !.real_digest = res.digest, !.pc = "vl_cmp"]]
    /\ UNCHANGED <<v, hw_retry, nv, disk_data, disk_hash, bufio, uevents,
                   n_ios, n_corrupt, n_evict>>

\* no second pass with the other engine
LevelRetries_Never(retry_count) == FALSE

\* lines 2813-2815: after retry_count++, the first mismatch goes back to LABEL
LevelRetries(retry_count) == retry_count = 1

\* lines 2799-2815: compare; on a match set hash_verified, else retry once
verify_level_cmp(w) ==
    /\ io[w].pc = "vl_cmp"
    /\ LET me == io[w]
           match == me.real_digest = me.want_digest
           cmp == Logged(me, "cmp", DM_VERITY_BLOCK_TYPE_METADATA, me.buf,
                         IF match THEN "match" ELSE "mismatch")
       IN  /\ bufio' = [bufio EXCEPT ![me.buf].hash_verified =
                                        HashVerifiedAfterCmp(match, @)]
           /\ io' = [io EXCEPT ![w] =
                        IF match THEN [cmp EXCEPT !.pc = "vl_copy"]
                        ELSE IF LevelRetries(me.vl_retry + 1)
                             THEN [cmp EXCEPT !.vl_retry = @ + 1, !.pc = "vl_hash"]
                             ELSE [cmp EXCEPT !.vl_retry = @ + 1, !.pc = "vl_fec"]]
    /\ UNCHANGED <<v, hw_retry, nv, disk_data, disk_hash, uevents,
                   n_ios, n_faults, n_corrupt, n_evict>>

\* lines 2816-2826: verity_fec_decode on the buffer, else verity_handle_err
verify_level_fec(w, fo) ==
    /\ io[w].pc = "vl_fec"
    /\ fo \in FecOutcomes(v)
    /\ LET me == io[w]
           fec == Logged(me, "fec", DM_VERITY_BLOCK_TYPE_METADATA, me.buf, fo)
       IN  IF fo = "ok"
           THEN /\ bufio' = [bufio EXCEPT ![me.buf].data = GoodHash(v.version, me.buf),
                                          ![me.buf].hash_verified = TRUE]
                /\ io' = [io EXCEPT ![w] = [fec EXCEPT !.pc = "vl_copy"]]
           ELSE /\ UNCHANGED bufio
                /\ io' = [io EXCEPT ![w] =
                            CallHandleErr(fec,
                                          DM_VERITY_BLOCK_TYPE_METADATA, me.buf, "level")]
    /\ UNCHANGED <<v, hw_retry, nv, disk_data, disk_hash, uevents,
                   n_ios, n_faults, n_corrupt, n_evict>>

\* the flag set when verity_handle_err lets the request go on
HashVerifiedAfterErr_Set(he_ret, old) == IF he_ret = 0 THEN TRUE ELSE old

\* lines 2825-2847: neither branch touches aux->hash_verified
HashVerifiedAfterErr(he_ret, old) == old

\* lines 2825-2847: verity_handle_err has returned
verify_level_err_ret(w) ==
    /\ io[w].pc = "vl_he_ret"
    /\ LET me == io[w]
           he == Logged(me, "he", DM_VERITY_BLOCK_TYPE_METADATA, me.buf,
                        IF me.he_ret # 0 THEN "fail" ELSE "continue")
       IN  /\ io' = [io EXCEPT ![w] =
                        IF me.he_ret # 0
                        THEN VerifyLevelRelease(HeForget(he), me.buf, -EIO)
                        ELSE HeForget([he EXCEPT !.pc = "vl_copy"])]
           /\ bufio' = [bufio EXCEPT ![me.buf].hash_verified =
                                        HashVerifiedAfterErr(me.he_ret, @)]
    /\ UNCHANGED <<v, hw_retry, nv, disk_data, disk_hash, uevents,
                   n_ios, n_faults, n_corrupt, n_evict>>

\* "data += offset" of line 2850 left out
DigestAtOffset_NoOffset(data, offset) == SubSeq(data, 1, digest_size)

\* lines 2850-2851: the digest_size bytes at offset of the hash block
DigestAtOffset(data, offset) == SubSeq(data, offset + 1, offset + digest_size)

\* lines 2850-2856: copy the digest at offset into want_digest, release
verify_level_copy(w) ==
    /\ io[w].pc = "vl_copy"
    /\ LET me == io[w]
           offset == VlPos(me).offset
           digest == DigestAtOffset(bufio[me.buf].data, offset)
       IN  io' = [io EXCEPT ![w] =
                    VerifyLevelRelease([me EXCEPT !.want_digest = digest], me.buf, 0)]
    /\ UNCHANGED <<v, hw_retry, nv, disk_data, disk_hash, bufio, uevents,
                   n_ios, n_faults, n_corrupt, n_evict>>

(***************************************************************************)
(* verity_for_bv_block: walk one data block of the bio from iter, segment  *)
(* by segment, applying process (hash update or zero fill) to each.        *)
(***************************************************************************)
BvLen == 1

Min(a, b) == IF a < b THEN a ELSE b

verity_bv_hash_update(st, seg) == [st EXCEPT !.desc = verity_hash_update(@, seg)]

\* the memset of line 2944 left out
verity_bv_zero_Skip(st, seg) == st

verity_bv_zero(st, seg) ==
    [st EXCEPT !.data = Overwrite(@, st.iter, [k \in 1 .. Len(seg) |-> 0])]

RECURSIVE verity_for_bv_block(_, _, _)
\* st = [data, iter, desc]; todo bytes are left; zero selects verity_bv_zero
verity_for_bv_block(st, todo, zero) ==
    IF todo = 0 THEN st
    ELSE LET len == Min(BvLen - (st.iter % BvLen), todo)
             seg == [k \in 1 .. len |->
                       IF st.iter + k <= Len(st.data) THEN st.data[st.iter + k] ELSE 9]
             done == IF zero THEN verity_bv_zero(st, seg)
                     ELSE verity_bv_hash_update(st, seg)
         IN  verity_for_bv_block([done EXCEPT !.iter = @ + len], todo - len, zero)

(***************************************************************************)
(* verity_verify_io.                                                       *)
(***************************************************************************)
\* lines 3050, 3061 and verity_work line 3084: verity_verify_io returns r
\* and verity_work passes it to verity_finish_io
VerifyIoReturn(rec, r) ==
    verity_finish_io([rec EXCEPT !.r = r, !.want_digest = NoDigest,
                                 !.real_digest = NoDigest, !.is_zero = FALSE,
                                 !.retry_count = 0, !.start = 0, !.start_retry = 0],
                     r)

\* lines 2969-2972: the call of verity_hash_for_block at LABEL
VerifyIoLabel(rec) ==
    HashForBlockEnter(Logged(rec, "hfb", DM_VERITY_BLOCK_TYPE_DATA,
                             rec.block + rec.b, "call"))

\* lines 2963-2967: next block of the request, or return 0
VerifyIoNext(rec) ==
    IF rec.b < rec.n_blocks
    THEN VerifyIoLabel([rec EXCEPT !.retry_count = 0, !.want_digest = NoDigest,
                                   !.real_digest = NoDigest, !.is_zero = FALSE,
                                   !.start = 0, !.start_retry = 0])
    ELSE VerifyIoReturn(rec, 0)

\* lines 2973-2974: verity_hash_for_block failed
verify_io_hfb_err(w) ==
    /\ io[w].pc = "io_hfb_ret"
    /\ io[w].r < 0
    /\ io' = [io EXCEPT ![w] = VerifyIoReturn(io[w], io[w].r)]
    /\ UNCHANGED <<v, hw_retry, nv, disk_data, disk_hash, bufio, uevents,
                   n_ios, n_faults, n_corrupt, n_evict>>

\* lines 2976-2987: a zero block is expected: fill it with zeros
verify_io_zero(w) ==
    /\ io[w].pc = "io_hfb_ret"
    /\ io[w].r >= 0
    /\ io[w].is_zero
    /\ LET me == io[w]
           st == verity_for_bv_block([data |-> me.bio_data, iter |-> me.iter,
                                      desc |-> verity_hash_init(v.version, 0)],
                                     DataBlockSize, TRUE)
           zero == Logged(me, "zero", DM_VERITY_BLOCK_TYPE_DATA, me.block + me.b, "ok")
       IN  io' = [io EXCEPT ![w] =
                    VerifyIoNext([zero EXCEPT !.bio_data = st.data, !.iter = st.iter,
                                              !.n_zero = @ + 1, !.b = @ + 1])]
    /\ UNCHANGED <<v, hw_retry, nv, disk_data, disk_hash, bufio, uevents,
                   n_ios, n_faults, n_corrupt, n_evict>>

\* lines 2989-3009: hash the data block with the engine retry_count selects
verify_io_hash(w, eo) ==
    /\ io[w].pc = "io_hfb_ret"
    /\ io[w].r >= 0
    /\ ~io[w].is_zero
    /\ eo \in EngineOutcomes(io[w].retry_count)
    /\ (eo # "ok" => n_faults < MaxFaults)
    /\ n_faults' = IF eo # "ok" THEN n_faults + 1 ELSE n_faults
    /\ LET me == io[w]
           first == me.retry_count = 0
           from == IF first THEN me.iter ELSE me.start_retry
           st == verity_for_bv_block([data |-> me.bio_data, iter |-> from,
                                      desc |-> verity_hash_init(v.version, me.retry_count)],
                                     DataBlockSize, FALSE)
           tfm == verity_hash_init(v.version, me.retry_count).tfm
           pos == [Logged(me, tfm, DM_VERITY_BLOCK_TYPE_DATA, me.block + me.b,
                          IF eo = "err" THEN "err" ELSE "ok")
                      EXCEPT !.start = from,
                             !.start_retry = from,
                             !.iter = IF first THEN st.iter ELSE @]
       IN  io' = [io EXCEPT ![w] =
                    IF EngineFailed(IF eo = "err" THEN -ENOMEM ELSE 0)
                    THEN VerifyIoReturn([pos EXCEPT !.env_err = TRUE], -ENOMEM)
                    ELSE [pos EXCEPT !.real_digest = verity_hash_final(v.version, st.desc, eo),
                                     !.pc = "io_cmp"]]
    /\ UNCHANGED <<v, hw_retry, nv, disk_data, disk_hash, bufio, uevents,
                   n_ios, n_corrupt, n_evict>>

\* lines 3011-3026: compare; on a mismatch go round once more
verify_io_cmp(w) ==
    /\ io[w].pc = "io_cmp"
    /\ LET me == io[w]
           match == me.real_digest = me.want_digest
           cmp == Logged(me, "cmp", DM_VERITY_BLOCK_TYPE_DATA, me.block + me.b,
                         IF match THEN "match" ELSE "mismatch")
       IN  io' = [io EXCEPT ![w] =
                    IF match
                    THEN VerifyIoNext([cmp EXCEPT !.b = @ + 1])
                    ELSE IF me.retry_count + 1 = 1
                         THEN VerifyIoLabel([cmp EXCEPT !.real_digest = NoDigest,
                                                        !.retry_count = @ + 1])
                         ELSE [cmp EXCEPT !.real_digest = NoDigest,
                                          !.retry_count = @ + 1, !.pc = "io_fec"]]
    /\ UNCHANGED <<v, hw_retry, nv, disk_data, disk_hash, bufio, uevents,
                   n_ios, n_faults, n_corrupt, n_evict>>

\* lines 3027-3036: verity_fec_decode into the bio at start, else verity_handle_err
verify_io_fec(w, fo) ==
    /\ io[w].pc = "io_fec"
    /\ fo \in FecOutcomes(v)
    /\ LET me == io[w]
           fec == Logged(me, "fec", DM_VERITY_BLOCK_TYPE_DATA, me.block + me.b, fo)
       IN  io' = [io EXCEPT ![w] =
                    IF fo = "ok"
                    THEN VerifyIoNext(
                            [fec EXCEPT !.bio_data =
                                           Overwrite(@, me.start, GoodData(me.block + me.b)),
                                        !.b = @ + 1])
                    ELSE CallHandleErr(fec,
                                       DM_VERITY_BLOCK_TYPE_DATA, me.block + me.b, "io")]
    /\ UNCHANGED <<v, hw_retry, nv, disk_data, disk_hash, bufio, uevents,
                   n_ios, n_faults, n_corrupt, n_evict>>

\* the result of verity_handle_err ignored in line 3035
DataErrFails_Never(ret) == FALSE

\* line 3035: a nonzero result of verity_handle_err fails the request
DataErrFails(ret) == ret # 0

\* lines 3035-3056: verity_handle_err has returned
verify_io_err_ret(w) ==
    /\ io[w].pc = "io_he_ret"
    /\ LET me == io[w]
           he == Logged(me, "he", DM_VERITY_BLOCK_TYPE_DATA, me.block + me.b,
                        IF DataErrFails(me.he_ret) THEN "fail" ELSE "continue")
       IN  io' = [io EXCEPT ![w] =
                    IF DataErrFails(me.he_ret)
                    THEN VerifyIoReturn(HeForget(he), -EIO)
                    ELSE VerifyIoNext(HeForget([he EXCEPT !.b = @ + 1]))]
    /\ UNCHANGED <<v, hw_retry, nv, disk_data, disk_hash, bufio, uevents,
                   n_ios, n_faults, n_corrupt, n_evict>>

(***************************************************************************)
(* Request dispatch: verity_map, verity_end_io, verity_work.               *)
(***************************************************************************)
\* verity_map accepts an aligned read inside the device and submits it
verity_map(w, block, n) ==
    /\ io[w].pc = "idle"
    /\ n_ios < MaxIos
    /\ block \in DataBlocks /\ n \in 1 .. MaxReqBlocks
    /\ block + n <= data_blocks
    /\ io' = [io EXCEPT ![w] =
                [IoIdle EXCEPT !.pc = "submitted", !.block = block,
                               !.n_blocks = n, !.iter = 0]]
    /\ n_ios' = n_ios + 1
    /\ UNCHANGED <<v, hw_retry, nv, disk_data, disk_hash, bufio, uevents,
                   n_faults, n_corrupt, n_evict>>

\* the test of line 3091 always false
EndIoSkipsVerify_Never(err, fec) == FALSE

\* line 3091: the request is finished at once, without verification
EndIoSkipsVerify(err, fec) == err # 0 /\ ~fec

\* The storage read completes (with error err) and verity_end_io runs.
verity_end_io(w, err) ==
    /\ io[w].pc = "submitted"
    /\ err \in {0, -EIO}
    /\ (err # 0 => n_faults < MaxFaults)
    /\ n_faults' = IF err # 0 THEN n_faults + 1 ELSE n_faults
    /\ LET me == io[w]
           data == IF err = 0
                   THEN ReadData(disk_data, me.block, me.n_blocks)
                   ELSE [p \in 1 .. me.n_blocks * DataBlockSize |-> 9]
           got == [me EXCEPT !.bio_data = data, !.orig_data = data, !.bi_error = err,
                             !.env_err = (err # 0), !.rd_err = err,
                             !.errs0 = v.corrupted_errs, !.failed0 = v.hash_failed]
       IN  io' = [io EXCEPT ![w] =
                    IF EndIoSkipsVerify(err, verity_fec_is_enabled(v))
                    THEN verity_finish_io(got, err)
                    ELSE [got EXCEPT !.pc = "queued"]]
    /\ UNCHANGED <<v, hw_retry, nv, disk_data, disk_hash, bufio, uevents,
                   n_ios, n_corrupt, n_evict>>

\* verity_work starts verity_verify_io on a worker.
verity_work(w) ==
    /\ io[w].pc = "queued"
    /\ LET me == io[w]
       IN  io' = [io EXCEPT ![w] =
                    VerifyIoNext(
                       [me EXCEPT !.b = 0,
                                  !.errs0 = v.corrupted_errs, !.failed0 = v.hash_failed,
                                  !.tree0 = TreeIntact(me.block, me.n_blocks),
                                  !.bad0 = BadOnWalk(me.block, me.n_blocks)])]
    /\ UNCHANGED <<v, hw_retry, nv, disk_data, disk_hash, bufio, uevents,
                   n_ios, n_faults, n_corrupt, n_evict>>

\* The completed bio is handed back; the per-bio data is gone.
bio_endio(w) ==
    /\ io[w].pc = "done"
    /\ io' = [io EXCEPT ![w] = IoIdle]
    /\ UNCHANGED <<v, hw_retry, nv, disk_data, disk_hash, bufio, uevents,
                   n_ios, n_faults, n_corrupt, n_evict>>

(***************************************************************************)
(* The environment: damage to the devices and reclaim of unheld buffers,   *)
(* both between requests.                                                  *)
(***************************************************************************)
AllIdle == \A w \in IoSlots : io[w].pc \in {"idle", "off"}

CorruptData(j) ==
    /\ AllIdle /\ n_corrupt < MaxCorrupt /\ n_ios < MaxIos
    /\ disk_data[j] = GoodData(j)
    /\ disk_data' = [disk_data EXCEPT ![j] = BadData(j)]
    /\ n_corrupt' = n_corrupt + 1
    /\ UNCHANGED <<v, hw_retry, nv, disk_hash, bufio, io, uevents, n_ios, n_faults, n_evict>>

CorruptHash(hb) ==
    /\ AllIdle /\ n_corrupt < MaxCorrupt /\ n_ios < MaxIos
    /\ disk_hash[hb] = GoodHash(v.version, hb)
    /\ disk_hash' = [disk_hash EXCEPT ![hb] = BadHash(v.version, hb)]
    /\ n_corrupt' = n_corrupt + 1
    /\ UNCHANGED <<v, hw_retry, nv, disk_data, bufio, io, uevents, n_ios, n_faults, n_evict>>

\* dm-bufio drops a buffer nobody holds; the next read allocates a new one
Evict(hb) ==
    /\ AllIdle /\ n_evict < MaxEvict /\ n_ios < MaxIos
    /\ bufio[hb].present
    /\ bufio' = [bufio EXCEPT ![hb] = NoBuffer]
    /\ n_evict' = n_evict + 1
    /\ UNCHANGED <<v, hw_retry, nv, disk_data, disk_hash, io, uevents,
                   n_ios, n_faults, n_corrupt>>

(***************************************************************************)
(* Specifications.                                                         *)
(***************************************************************************)
Dispatch(w) ==
    \/ \E block \in DataBlocks, n \in 1 .. MaxReqBlocks : verity_map(w, block, n)
    \/ \E err \in {0, -EIO} : verity_end_io(w, err)
    \/ verity_work(w)
    \/ bio_endio(w)

VerifyIo(w) ==
    \/ verify_io_hfb_err(w)
    \/ verify_io_zero(w)
    \/ \E eo \in {"ok", "glitch", "err"} : verify_io_hash(w, eo)
    \/ verify_io_cmp(w)
    \/ \E fo \in {"ok", "fail"} : verify_io_fec(w, fo)
    \/ verify_io_err_ret(w)

VerifyLevel(w) ==
    \/ \E so \in {"ok", "err"} : verify_level_read(w, so)
    \/ \E eo \in {"ok", "glitch", "err"} : verify_level_hash(w, eo)
    \/ verify_level_cmp(w)
    \/ \E fo \in {"ok", "fail"} : verify_level_fec(w, fo)
    \/ verify_level_err_ret(w)
    \/ verify_level_copy(w)

HandleErr(w) == \E nvo \in {"ok", "rdfail", "wrfail"} : verity_handle_err(w, nvo)

Environment ==
    \/ \E j \in DataBlocks : CorruptData(j)
    \/ \E hb \in HashBlocks : CorruptHash(hb)
    \/ \E hb \in HashBlocks : Evict(hb)

Next ==
    \/ \E w \in IoSlots : Dispatch(w) \/ VerifyIo(w) \/ VerifyLevel(w) \/ HandleErr(w)
    \/ Environment

Spec == Init /\ [][Next]_vars

(***************************************************************************)
(* The corruption policy on its own: a caller invokes verity_handle_err    *)
(* again and again on one target, from a counter of zero past the maximum. *)
(* Both builds (with and without CONFIG_DM_VERITY_HW_RETRY) and several    *)
(* values of the persisted attempt count are covered.                      *)
(***************************************************************************)
InitErr ==
    /\ \E mode \in Modes : v = verity_ctr(1, mode, FALSE, FALSE)
    /\ hw_retry \in BOOLEAN
    /\ nv \in {0, DM_MAX_ERR_COUNT - 1, DM_MAX_ERR_COUNT, DM_MAX_ERR_COUNT + 1}
    /\ (~hw_retry => nv = 0)
    /\ InitDevices(1)
    /\ io = [w \in IoSlots |-> IF w = 1 THEN [IoIdle EXCEPT !.pc = "caller"] ELSE IoOff]

\* the caller reports block `block` of type `type`
err_call(w, type, block) ==
    /\ io[w].pc = "caller"
    /\ io[w].n_he < MaxErrCalls
    /\ type \in BlockTypes
    /\ io' = [io EXCEPT ![w] = CallHandleErr(io[w], type, block, "none")]
    /\ UNCHANGED <<v, hw_retry, nv, disk_data, disk_hash, bufio, uevents,
                   n_ios, n_faults, n_corrupt, n_evict>>

\* the caller has seen the result
err_return(w) ==
    /\ io[w].pc = "he_done"
    /\ io' = [io EXCEPT ![w] =
                [HeForget(io[w]) EXCEPT !.pc = "caller", !.ev_type = "none",
                                        !.ev_block = 0]]
    /\ UNCHANGED <<v, hw_retry, nv, disk_data, disk_hash, bufio, uevents,
                   n_ios, n_faults, n_corrupt, n_evict>>

NextErr ==
    \E w \in IoSlots :
        \/ \E type \in BlockTypes, block \in {0, data_blocks - 1} : err_call(w, type, block)
        \/ HandleErr(w)
        \/ err_return(w)

SpecErr == InitErr /\ [][NextErr]_vars

(***************************************************************************)
(* The requests of Spec on a target without FEC, either fresh or after     *)
(* DM_VERITY_MAX_CORRUPTED_ERRS - 1 reported corruptions, where the        *)
(* counter is one short of the maximum.                                    *)
(***************************************************************************)
InitSat ==
    /\ \E mode \in {DM_VERITY_MODE_EIO, DM_VERITY_MODE_LOGGING},
          errs \in {0, DM_VERITY_MAX_CORRUPTED_ERRS - 1} :
          v = [verity_ctr(1, mode, FALSE, TRUE)
                  EXCEPT !.hash_failed = IF errs = 0 THEN 0 ELSE 1,
                         !.corrupted_errs = errs]
    /\ hw_retry = FALSE
    /\ nv = DM_MAX_ERR_COUNT - 1
    /\ InitDevices(1)
    /\ io = [w \in IoSlots |-> IF w = 1 THEN IoIdle ELSE IoOff]

SpecSat == InitSat /\ [][Next]_vars

(***************************************************************************)
(* Properties of verity_handle_err.                                        *)
(***************************************************************************)
\* a call of verity_handle_err by slot w has just returned
HeReturned(w) == io[w].pc \in {"he_done", "vl_he_ret", "io_he_ret"}

\* C6: in logging mode, counting the calls made on one target from its
\* construction, each of the first DM_VERITY_MAX_CORRUPTED_ERRS calls
\* returns 0 (continue) and every later call returns 1 (fail).
C6_LoggingContinuesUntilMax ==
    \A w \in IoSlots :
        (io[w].pc = "he_done" /\ v.mode = DM_VERITY_MODE_LOGGING)
        => io[w].he_ret = (IF io[w].n_he <= DM_VERITY_MAX_CORRUPTED_ERRS THEN 0 ELSE 1)

C6_Witness ==
    \E w \in IoSlots :
        /\ io[w].pc = "he_done" /\ v.mode = DM_VERITY_MODE_LOGGING
        /\ io[w].n_he = DM_VERITY_MAX_CORRUPTED_ERRS + 1
        /\ io[w].he_ret = 1

\* C7: a call made with the counter at the maximum returns 1 in every mode
\* and for both block types and leaves the counter alone; a call made below
\* the maximum adds exactly one to the counter and returns 1 in EIO mode
\* and 0 in logging mode.
C7_SaturatingCounter ==
    \A w \in IoSlots :
        io[w].pc = "he_done"
        => IF io[w].he_pre >= DM_VERITY_MAX_CORRUPTED_ERRS
           THEN io[w].he_ret = 1 /\ v.corrupted_errs = io[w].he_pre
           ELSE /\ v.corrupted_errs = io[w].he_pre + 1
                /\ (v.mode = DM_VERITY_MODE_EIO => io[w].he_ret = 1)
                /\ (v.mode = DM_VERITY_MODE_LOGGING => io[w].he_ret = 0)

C7_Witness ==
    \E w \in IoSlots :
        /\ io[w].pc = "he_done"
        /\ io[w].he_pre >= DM_VERITY_MAX_CORRUPTED_ERRS
        /\ v.mode = DM_VERITY_MODE_RESTART
        /\ io[w].he_type = DM_VERITY_BLOCK_TYPE_METADATA
        /\ io[w].he_ret = 1 /\ v.corrupted_errs = DM_VERITY_MAX_CORRUPTED_ERRS

\* C8: whenever a call of verity_handle_err returns, hash_failed is set,
\* also when the counter was at the maximum; no step of any operation
\* clears hash_failed once it is set, and verity_status then reports 'C'.
C8_HashFailedSticky ==
    [][/\ \A w \in IoSlots :
             (io[w].pc = "he" /\ HeReturned(w)')
             => (v'.hash_failed = 1 /\ verity_status(v') = "C")
       /\ (v.hash_failed = 1 => (v'.hash_failed = 1 /\ verity_status(v') = "C"))]_vars

\* the mark set by a call made at the maximum is still there when a later
\* request has completed without any error
C8_Witness ==
    \E w \in IoSlots :
        /\ io[w].pc = "done" /\ io[w].bi_error = 0 /\ io[w].n_he = 0
        /\ v.corrupted_errs = DM_VERITY_MAX_CORRUPTED_ERRS
        /\ v.hash_failed = 1 /\ verity_status(v) = "C"

\* C9 as claimed: every call, also one made with the counter at the
\* maximum, sends exactly one uevent.
C9_Original ==
    \A w \in IoSlots :
        io[w].pc = "he_done" => uevents = io[w].he_uev + 1

\* C9 as amended: a call made below the maximum sends exactly one uevent,
\* which carries the type and block it was called with; a call made with
\* the counter at the maximum sends none.
C9_OneEventBelowMax ==
    \A w \in IoSlots :
        io[w].pc = "he_done"
        => IF io[w].he_pre < DM_VERITY_MAX_CORRUPTED_ERRS
           THEN /\ uevents = io[w].he_uev + 1
                /\ io[w].he_sent
                /\ io[w].ev_type = io[w].he_type /\ io[w].ev_block = io[w].he_block
           ELSE uevents = io[w].he_uev /\ ~io[w].he_sent

C9_Witness ==
    \E w \in IoSlots :
        /\ io[w].pc = "he_done"
        /\ io[w].he_pre = DM_VERITY_MAX_CORRUPTED_ERRS
        /\ uevents = io[w].he_uev /\ uevents = DM_VERITY_MAX_CORRUPTED_ERRS

\* C10 as claimed: in restart mode a call made below the maximum never
\* returns 1.
C10_Original ==
    \A w \in IoSlots :
        (/\ io[w].pc = "he_done" /\ v.mode = DM_VERITY_MODE_RESTART
         /\ io[w].he_pre < DM_VERITY_MAX_CORRUPTED_ERRS)
        => io[w].he_ret = 0

\* the call of slot w read the persisted count and records this attempt
C10_Recorded(w) ==
    /\ hw_retry /\ io[w].he_nvo # "rdfail"
    /\ io[w].he_nv # DM_MAX_ERR_COUNT /\ io[w].he_flag = 0

\* C10 as amended: in restart mode a call made below the maximum restarts
\* nothing.  It returns 0, except on the build with
\* CONFIG_DM_VERITY_HW_RETRY when the persisted count reads
\* DM_MAX_ERR_COUNT: then it returns 1.  Only that build records the
\* attempt, and only when the count was read, is not DM_MAX_ERR_COUNT and
\* no attempt was recorded since construction: verify_failed_flag is set
\* and, unless the write fails, the count grows by one, capped at
\* DM_MAX_ERR_COUNT.
C10_RestartBelowMax ==
    \A w \in IoSlots :
        (/\ io[w].pc = "he_done" /\ v.mode = DM_VERITY_MODE_RESTART
         /\ io[w].he_pre < DM_VERITY_MAX_CORRUPTED_ERRS)
        => /\ io[w].he_ret = (IF /\ hw_retry /\ io[w].he_nvo # "rdfail"
                                 /\ io[w].he_nv = DM_MAX_ERR_COUNT
                              THEN 1 ELSE 0)
           /\ v.verify_failed_flag = (IF C10_Recorded(w) THEN 1 ELSE io[w].he_flag)
           /\ nv = (IF C10_Recorded(w) /\ io[w].he_nvo = "ok"
                    THEN (IF io[w].he_nv >= DM_MAX_ERR_COUNT THEN DM_MAX_ERR_COUNT
                          ELSE io[w].he_nv + 1)
                    ELSE io[w].he_nv)

C10_Witness ==
    \E w \in IoSlots :
        /\ io[w].pc = "he_done" /\ v.mode = DM_VERITY_MODE_RESTART
        /\ io[w].he_pre < DM_VERITY_MAX_CORRUPTED_ERRS
        /\ hw_retry /\ io[w].he_nv = DM_MAX_ERR_COUNT /\ io[w].he_ret = 1

(***************************************************************************)
(* Properties of verity_verify_io.                                         *)
(***************************************************************************)
\* the request of slot w has been completed
Completed(w) == io[w].pc = "done"

\* the blocks of the request of slot w
ReqBlocks(w) == io[w].block .. io[w].block + io[w].n_blocks - 1

\* the bytes the storage read delivered for block d of the request of slot w
OrigBlock(w, d) ==
    SubSeq(io[w].orig_data, (d - io[w].block) * DataBlockSize + 1,
           (d - io[w].block + 1) * DataBlockSize)

\* the storage read of slot w delivered the content the tree certifies
DataIntact(w) == io[w].orig_data = GoodRange(io[w].block, io[w].n_blocks)

\* the digest the intact tree stores for data block d is the zero digest
ZeroExpected(d) ==
    v.zero_digest # NoDigest /\ verity_hash(v.version, GoodData(d)) = v.zero_digest

\* C2: a request whose data blocks and hash blocks all have the content of
\* the tree under root_digest, and which meets no storage or engine error,
\* ends with bi_error = 0 and the data as read, without any call of
\* verity_handle_err, with corrupted_errs and hash_failed as they were;
\* for every range and whatever hash_verified flags earlier requests left.
C2_RoundTrip ==
    \A w \in IoSlots :
        (Completed(w) /\ io[w].tree0 /\ DataIntact(w) /\ ~io[w].env_err)
        => /\ io[w].bi_error = 0
           /\ io[w].bio_data = io[w].orig_data
           /\ io[w].n_he = 0
           /\ v.corrupted_errs = io[w].errs0
           /\ v.hash_failed = io[w].failed0

\* a second request of two blocks succeeds on a cache the first one filled
C2_Witness ==
    \E w \in IoSlots :
        /\ Completed(w) /\ io[w].tree0 /\ DataIntact(w) /\ ~io[w].env_err
        /\ io[w].n_blocks = 2 /\ n_ios = 2
        /\ \E hb \in HashBlocks : HashVerified(hb)
        /\ io[w].bi_error = 0 /\ io[w].bio_data = io[w].orig_data

\* the data blocks of the request of slot w that do not have the content
\* the (intact) tree stores the digest of
BadBlocks(w) == {d \in ReqBlocks(w) : OrigBlock(w, d) # GoodData(d)}

\* C3 as claimed: without FEC and in EIO mode, a request with a data block
\* that does not hash to the digest the intact tree stores for it fails.
C3_Original ==
    \A w \in IoSlots :
        (/\ Completed(w) /\ ~verity_fec_is_enabled(v) /\ v.mode = DM_VERITY_MODE_EIO
         /\ io[w].tree0 /\ ~io[w].env_err
         /\ BadBlocks(w) # {})
        => io[w].bi_error # 0

\* C3 as amended: the same, for a block that is not expected to be zero
\* (the zero digest is not configured, or the digest stored for the block
\* is not the zero digest): the request ends with -EIO after
\* verity_handle_err was called for a data block of that kind.
C3_BadDataFailsInEio ==
    \A w \in IoSlots :
        (/\ Completed(w) /\ ~verity_fec_is_enabled(v) /\ v.mode = DM_VERITY_MODE_EIO
         /\ io[w].tree0 /\ ~io[w].env_err
         /\ \E d \in BadBlocks(w) : ~ZeroExpected(d))
        => /\ io[w].bi_error = -EIO
           /\ io[w].n_he = 1
           /\ v.hash_failed = 1
           /\ io[w].ev_type = DM_VERITY_BLOCK_TYPE_DATA
           /\ io[w].ev_block \in BadBlocks(w) /\ ~ZeroExpected(io[w].ev_block)

\* the damaged block is the second of a request whose path is verified
C3_Witness ==
    \E w \in IoSlots :
        /\ Completed(w) /\ ~verity_fec_is_enabled(v) /\ v.mode = DM_VERITY_MODE_EIO
        /\ io[w].tree0 /\ ~io[w].env_err
        /\ BadBlocks(w) = {io[w].block + 1} /\ ~ZeroExpected(io[w].block + 1)
        /\ \E hb \in HashBlocks : HashVerified(hb)
        /\ io[w].bi_error = -EIO

\* the hash blocks of the request of slot w that are damaged on the device
\* or in the cache
CorruptedOnPath(w) ==
    {hb \in PathBlocks(v.version, io[w].block, io[w].n_blocks) :
        HashContent(hb) # GoodHash(v.version, hb)}

\* C4 as claimed, in the mode where verity_handle_err fails requests (EIO):
\* without FEC, a request for intact data blocks fails when a hash block
\* covering one of them is damaged, whatever the level and whatever flags
\* the other blocks of the path have.
C4_Original ==
    \A w \in IoSlots :
        (/\ Completed(w) /\ ~verity_fec_is_enabled(v) /\ v.mode = DM_VERITY_MODE_EIO
         /\ ~io[w].env_err /\ DataIntact(w)
         /\ CorruptedOnPath(w) # {})
        => io[w].bi_error # 0

\* C4 as amended: without FEC and in EIO mode, a request for intact data
\* blocks fails with -EIO after verity_handle_err was called for a damaged
\* metadata block, when the walk has to hash a damaged hash block: one on
\* the path of a block d of the request that is not marked verified, while
\* the level-0 block of d is not marked verified either.  A damaged block
\* that is marked verified, or lies above a verified level-0 block, is not
\* looked at and fails nothing.
C4_BadHashFailsInEio ==
    \A w \in IoSlots :
        (/\ Completed(w) /\ ~verity_fec_is_enabled(v) /\ v.mode = DM_VERITY_MODE_EIO
         /\ ~io[w].env_err /\ DataIntact(w)
         /\ io[w].bad0 # {})
        => /\ io[w].bi_error = -EIO
           /\ io[w].n_he = 1
           /\ v.hash_failed = 1
           /\ io[w].ev_type = DM_VERITY_BLOCK_TYPE_METADATA
           /\ io[w].ev_block \in io[w].bad0

\* the damaged block is the top block, met after the level-0 shortcut
\* found its block unverified
C4_Witness ==
    \E w \in IoSlots :
        /\ Completed(w) /\ ~verity_fec_is_enabled(v) /\ v.mode = DM_VERITY_MODE_EIO
        /\ ~io[w].env_err /\ DataIntact(w)
        /\ io[w].bad0 = {hash_level_block(levels - 1)}
        /\ io[w].bi_error = -EIO /\ io[w].ev_block = hash_level_block(levels - 1)

\* slot w takes the step of lines 2976-2987 (the zero fill)
ZeroStep(w) ==
    /\ io[w].pc = "io_hfb_ret" /\ io[w].r >= 0 /\ io[w].is_zero
    /\ io'[w] # io[w]

\* is_zero as lines 2889-2892 set it
IsZeroAsSet(w) ==
    io[w].pc = "io_hfb_ret"
    => (io[w].is_zero <=> /\ io[w].r = 0
                          /\ v.zero_digest # NoDigest
                          /\ io[w].want_digest = v.zero_digest)

\* what the zero fill does not do: no digest, no comparison, no FEC, no
\* verity_handle_err, nothing of the target changes
ZeroStepLeavesAlone(w) ==
    /\ io'[w].pc \notin {"io_cmp", "io_fec", "he"}
    /\ io'[w].real_digest = NoDigest
    /\ io'[w].n_he = io[w].n_he
    /\ v' = v /\ uevents' = uevents /\ bufio' = bufio /\ n_faults' = n_faults

\* bytes from+1 .. from+DataBlockSize of the bio are zero afterwards (as far
\* as the bio reaches) and every other byte is as before
ZeroFilledAt(w, from) ==
    /\ Len(io'[w].bio_data) = Len(io[w].bio_data)
    /\ \A p \in 1 .. Len(io[w].bio_data) :
          io'[w].bio_data[p] = (IF from < p /\ p <= from + DataBlockSize
                                THEN 0 ELSE io[w].bio_data[p])

InitConc ==
    /\ \E mode \in {DM_VERITY_MODE_EIO, DM_VERITY_MODE_LOGGING} :
          v = verity_ctr(1, mode, FALSE, TRUE)
    /\ hw_retry = FALSE
    /\ nv = DM_MAX_ERR_COUNT - 1
    /\ \E j \in {-1, 0} :
          disk_data = [d \in DataBlocks |-> IF d = j THEN BadData(d) ELSE GoodData(d)]
    /\ \E k \in {-1} \cup HashBlocks :
          disk_hash = [hb \in HashBlocks |->
                          IF hb = k THEN BadHash(1, hb) ELSE GoodHash(1, hb)]
    /\ (disk_data[0] = GoodData(0)
        \/ disk_hash = [hb \in HashBlocks |-> GoodHash(1, hb)])
    /\ bufio = [hb \in HashBlocks |-> NoBuffer]
    /\ uevents = 0
    /\ n_ios = 0 /\ n_faults = 0 /\ n_corrupt = 0 /\ n_evict = 0
    /\ io = [w \in IoSlots |-> IoIdle]

\* each worker verifies requests of one block
DispatchConc(w) ==
    \/ \E block \in DataBlocks : verity_map(w, block, 1)
    \/ \E err \in {0, -EIO} : verity_end_io(w, err)
    \/ verity_work(w)
    \/ bio_endio(w)

NextConc ==
    \E w \in IoSlots : DispatchConc(w) \/ VerifyIo(w) \/ VerifyLevel(w) \/ HandleErr(w)

SpecConc == InitConc /\ [][NextConc]_vars

(***************************************************************************)
(* Properties of the buffers.                                              *)
(***************************************************************************)
\* C1: hash_verified of a buffer is FALSE when the buffer is allocated,
\* and while the buffer stays in the cache no step of any worker, in any
\* interleaving, takes the flag from TRUE back to FALSE.
C1_HashVerifiedMonotonic ==
    [][\A hb \in HashBlocks :
          /\ (~bufio[hb].present /\ bufio'[hb].present) => ~bufio'[hb].hash_verified
          /\ (bufio[hb].present /\ bufio[hb].hash_verified /\ bufio'[hb].present)
             => bufio'[hb].hash_verified]_vars

\* a worker is about to compare a digest that does not match on a buffer
\* the other worker has marked verified in the meantime
C1_Witness ==
    \E w \in IoSlots, hb \in HashBlocks :
        /\ io[w].pc = "vl_cmp" /\ io[w].buf = hb
        /\ io[w].real_digest # io[w].want_digest
        /\ HashVerified(hb)

(***************************************************************************)
(* Two workers in verity_verify_level on the same buffer.                  *)
(***************************************************************************)
\* the digest the level above (or root_digest) stores for the intact hb
GoodWant(hb) == verity_hash(v.version, GoodHash(v.version, hb))

\* the digest the intact hb stores for the block the request of slot w is
\* verifying
ChildDigest(w, hb) ==
    DigestAtOffset(GoodHash(v.version, hb),
                   verity_hash_at_level(v.version, io[w].block + io[w].b,
                                        LevelOf(hb)).offset)

\* slot w is inside verity_verify_level(.., skip_unverified = false, ..) and
\* holds the buffer of the intact hb, which it is to check against the
\* digest the level above stores for it
VerifiesIntact(w, hb) ==
    /\ io[w].pc \in {"vl_hash", "vl_cmp", "vl_copy", "vl_fec", "vl_he_ret", "he"}
    /\ io[w].buf = hb
    /\ ~io[w].vl_skip
    /\ bufio[hb].data = GoodHash(v.version, hb)
    /\ io[w].want_digest = GoodWant(hb)

\* both requests have hashed the same hash block, which both read unverified
BothHashed(hb) ==
    \A w \in IoSlots :
        \E i \in 1 .. Len(io[w].log) :
            /\ io[w].log[i].op = "sha2ce" /\ io[w].log[i].block = hb
            /\ io[w].log[i].type = DM_VERITY_BLOCK_TYPE_METADATA

\* C11: a worker inside verity_verify_level on an intact hash block, with
\* the digest of that block in want_digest, meets no FEC
\* and no verity_handle_err call and leaves the buffer content alone,
\* whatever the other worker does on the same buffer in between; unless an
\* engine fails, it returns 0 with the digest stored for its data block in
\* its own want_digest and the block marked verified.  A request whose
\* hash blocks and data are intact and which meets no storage or engine
\* error ends with bi_error = 0 under every interleaving of two workers.
C11_ConcurrentVerifyLevel ==
    /\ [](\A w \in IoSlots :
            (Completed(w) /\ io[w].tree0 /\ DataIntact(w) /\ ~io[w].env_err)
            => io[w].bi_error = 0)
    /\ [][\A w \in IoSlots, hb \in HashBlocks :
            VerifiesIntact(w, hb)
            => /\ io[w].pc \in {"vl_hash", "vl_cmp", "vl_copy"}
               /\ bufio'[hb].data = bufio[hb].data
               /\ (io'[w] # io[w] /\ io'[w].env_err = io[w].env_err
                   /\ io[w].pc = "vl_copy")
                  => /\ io'[w].r = 0
                     /\ io'[w].want_digest = ChildDigest(w, hb)
                     /\ bufio'[hb].hash_verified
                     /\ io'[w].buf = NoBuf]_vars

\* both workers have hashed the same intact hash block, both ended their
\* requests with success, and the block is marked verified
C11_Witness ==
    /\ v.mode = DM_VERITY_MODE_EIO
    /\ \A w \in IoSlots : Completed(w) /\ io[w].bi_error = 0 /\ io[w].tree0
    /\ \E hb \in HashBlocks :
          /\ BothHashed(hb) /\ HashVerified(hb)
          /\ bufio[hb].data = GoodHash(v.version, hb)

(***************************************************************************)
(* Requests whose storage read failed.                                     *)
(***************************************************************************)
\* the request of slot w has made no step of verity_verify_io and has
\* left the target as it was
NotVerified(w) ==
    /\ io[w].log = <<>>
    /\ io[w].n_he = 0
    /\ v.corrupted_errs = io[w].errs0
    /\ v.hash_failed = io[w].failed0

\* C12 as claimed: a request whose storage read failed ends with that error
\* without any step of verification and without a verity_handle_err call or
\* a change of the counter, with or without FEC.
C12_Original ==
    \A w \in IoSlots :
        (Completed(w) /\ io[w].rd_err # 0)
        => io[w].bi_error = io[w].rd_err /\ NotVerified(w)

\* C12 as amended: that holds on a target without FEC; on a target with FEC
\* the request is handed to verity_verify_io like any other, and it ends
\* with success only if every block was repaired by FEC (or zero-filled).
C12_StorageErrorSkipsWithoutFec ==
    \A w \in IoSlots :
        (Completed(w) /\ io[w].rd_err # 0)
        => IF ~verity_fec_is_enabled(v)
           THEN io[w].bi_error = io[w].rd_err /\ NotVerified(w)
           ELSE /\ io[w].log # <<>>
                /\ (io[w].bi_error = 0 /\ v.mode = DM_VERITY_MODE_EIO)
                   => \A b \in 0 .. io[w].n_blocks - 1 :
                         \E i \in 1 .. Len(io[w].log) :
                            /\ io[w].log[i].b = b
                            /\ io[w].log[i].type = DM_VERITY_BLOCK_TYPE_DATA
                            /\ \/ io[w].log[i].op = "fec" /\ io[w].log[i].res = "ok"
                               \/ io[w].log[i].op = "zero"

\* a request whose storage read failed has been completed on a target
\* without FEC that had already counted a corruption
C12_Witness ==
    \E w \in IoSlots :
        /\ Completed(w) /\ io[w].rd_err # 0 /\ ~verity_fec_is_enabled(v)
        /\ io[w].bi_error = -EIO /\ NotVerified(w)
        /\ v.corrupted_errs > 0

(***************************************************************************)
(* verity_ctr: the geometry computed from the table line.  sector_t and    *)
(* unsigned long long values are 64-bit words, kept as sequences of bits   *)
(* with the least significant bit first.                                   *)
(***************************************************************************)
BITS_PER_LONG_LONG == 64
SECTOR_SHIFT == 9
PAGE_SIZE == 4096
DM_VERITY_MAX_LEVELS == 63

U64Idx == 1 .. BITS_PER_LONG_LONG

\* the word with the bits bit[1], ..., bit[64], as a tuple
Word(bit) == SubSeq(bit, 1, BITS_PER_LONG_LONG)

\* the word of the number n < 2^31
U64(n) == Word([i \in U64Idx |-> IF i <= 31 THEN (n \div Pow2(i - 1)) % 2 ELSE 0])

U64Pow2(k) == Word([i \in U64Idx |-> IF i = k + 1 THEN 1 ELSE 0])

U64Max == Word([i \in U64Idx |-> 1])

U64IsZero(x) == \A i \in U64Idx : x[i] = 0

U64Shr(x, n) ==
    Word([i \in U64Idx |-> IF i + n <= BITS_PER_LONG_LONG THEN x[i + n] ELSE 0])

U64Shl(x, n) == Word([i \in U64Idx |-> IF i - n >= 1 THEN x[i - n] ELSE 0])

\* the carry into bit i of x + y + c
U64Carry(x, y, c, i) ==
    \/ \E j \in 1 .. i - 1 :
          /\ x[j] + y[j] = 2
          /\ \A k \in j + 1 .. i - 1 : x[k] + y[k] >= 1
    \/ c = 1 /\ \A k \in 1 .. i - 1 : x[k] + y[k] >= 1

U64AddCarry(x, y, c) ==
    Word([i \in U64Idx |-> (x[i] + y[i] + IF U64Carry(x, y, c, i) THEN 1 ELSE 0) % 2])

\* x + y modulo 2^64
U64Add(x, y) == U64AddCarry(x, y, 0)

\* x - y modulo 2^64: x + ~y + 1
U64Sub(x, y) == U64AddCarry(x, Word([i \in U64Idx |-> 1 - y[i]]), 1)

U64Less(x, y) ==
    \E i \in U64Idx : x[i] < y[i] /\ \A j \in i + 1 .. BITS_PER_LONG_LONG : x[j] = y[j]

\* x << n and x >> n as the build computes them: a shift of a 64-bit word
\* by a count >= 64 is undefined in C and yields either 0 or the shift by
\* the count modulo 64
U64ShlUB(x, n, ub) ==
    IF n < BITS_PER_LONG_LONG THEN U64Shl(x, n)
    ELSE IF ub = "zero" THEN U64(0) ELSE U64Shl(x, n % BITS_PER_LONG_LONG)

U64ShrUB(x, n, ub) ==
    IF n < BITS_PER_LONG_LONG THEN U64Shr(x, n)
    ELSE IF ub = "zero" THEN U64(0) ELSE U64Shr(x, n % BITS_PER_LONG_LONG)

\* num & (num - 1) is zero
IsPowerOfTwo(num) == num > 0 /\ num = Pow2(fls(num))

\* lines 3621-3626: the loop counting the levels for data_blocks # 0
RECURSIVE CtrLevels(_, _, _)
CtrLevels(blocks_minus_1, hpb, l) ==
    IF hpb * l < BITS_PER_LONG_LONG /\ ~U64IsZero(U64Shr(blocks_minus_1, hpb * l))
    THEN CtrLevels(blocks_minus_1, hpb, l + 1)
    ELSE l

\* the size of the level below taken for level i
CtrLevelSize_LevelBelow(blocks, hpb, i, ub) ==
    U64ShrUB(U64Sub(U64Add(blocks, U64ShlUB(U64(1), i * hpb, ub)), U64(1)), i * hpb, ub)

\* lines 3636-3637: the number of hash blocks of level i
CtrLevelSize(blocks, hpb, i, ub) ==
    LET n == (i + 1) * hpb
    IN  U64ShrUB(U64Sub(U64Add(blocks, U64ShlUB(U64(1), n, ub)), U64(1)), n, ub)

RECURSIVE CtrHashPosition(_, _, _, _, _, _)
\* lines 3633-3646: the loop from level i down to 0, with hash_position =
\* pos and the offsets of the levels above i in hlb (hash_level_block[l] is
\* element l - i of hlb); "overflow" if the test of line 3640 fires
CtrHashPosition(pos, blocks, hpb, i, hlb, ub) ==
    IF i < 0 THEN [overflow |-> FALSE, hash_level_block |-> hlb, hash_blocks |-> pos]
    ELSE LET s == CtrLevelSize(blocks, hpb, i, ub)
             next == U64Add(pos, s)
         IN  IF U64Less(next, pos)
             THEN [overflow |-> TRUE, hash_level_block |-> hlb, hash_blocks |-> pos]
             ELSE CtrHashPosition(next, blocks, hpb, i - 1, <<pos>> \o hlb, ub)

\* the test of line 3628 left out
TooManyLevels_Never(n) == FALSE

\* line 3628
TooManyLevels(n) == n > DM_VERITY_MAX_LEVELS

\* the struct dm_verity of a table line not parsed yet
GeoNone ==
    [error |-> "", data_dev_block_bits |-> 0, hash_dev_block_bits |-> 0,
     hash_per_block_bits |-> 0, levels |-> 0, hash_level_block |-> <<>>,
     hash_blocks |-> U64(0)]

CtrFail(msg) == [GeoNone EXCEPT !.error = msg]

\* verity_ctr on the table line a, up to the hash device size check; the
\* result has error = "" when the target is constructed
verity_ctr_geometry(a, ub) ==
    LET dbits == fls(a.data_bs)
        hbits == fls(a.hash_bs)
        hpb == fls(Pow2(hbits) \div a.digest_size)
        nlevels == IF ~U64IsZero(a.data_blocks)
                   THEN CtrLevels(U64Sub(a.data_blocks, U64(1)), hpb, 0) ELSE 0
        pos == CtrHashPosition(a.hash_start, a.data_blocks, hpb, nlevels - 1, <<>>, ub)
    IN  IF a.env = "nomem" THEN CtrFail("Cannot allocate verity structure")
        ELSE IF ~IsPowerOfTwo(a.data_bs) \/ a.data_bs < a.logical_block_size
                \/ a.data_bs > PAGE_SIZE
        THEN CtrFail("Invalid data device block size")
        ELSE IF ~IsPowerOfTwo(a.hash_bs) \/ a.hash_bs < a.logical_block_size
        THEN CtrFail("Invalid hash device block size")
        ELSE IF U64Shr(U64Shl(a.data_blocks, dbits - SECTOR_SHIFT), dbits - SECTOR_SHIFT)
                # a.data_blocks
        THEN CtrFail("Invalid data blocks")
        ELSE IF U64Less(U64Shl(a.data_blocks, dbits - SECTOR_SHIFT), a.ti_len)
        THEN CtrFail("Data device is too small")
        ELSE IF U64Shr(U64Shl(a.hash_start, hbits - SECTOR_SHIFT), hbits - SECTOR_SHIFT)
                # a.hash_start
        THEN CtrFail("Invalid hash start")
        ELSE IF Pow2(hbits) < a.digest_size * 2
        THEN CtrFail("Digest size too big")
        ELSE IF TooManyLevels(nlevels)
        THEN CtrFail("Too many tree levels")
        ELSE IF pos.overflow
        THEN CtrFail("Hash device offset overflow")
        ELSE IF U64Less(a.hash_dev_size, pos.hash_blocks)
        THEN CtrFail("Hash device is too small")
        ELSE [error |-> "", data_dev_block_bits |-> dbits, hash_dev_block_bits |-> hbits,
              hash_per_block_bits |-> hpb, levels |-> nlevels,
              hash_level_block |-> [l \in 0 .. nlevels - 1 |-> pos.hash_level_block[l + 1]],
              hash_blocks |-> pos.hash_blocks]

\* The table lines tried.
DataBlockSizes == {0, 512, 1000, 4096, 8192}
HashBlockSizes == {512, 3000, 4096}
DigestSizes == {32, 256, 300}
DataBlockCounts ==
    {U64(0), U64(1), U64(2), U64(1024), U64(1025), U64Pow2(62),
     U64Pow2(63), U64Add(U64Pow2(63), U64(1)), U64Max}
HashStarts == {U64(0), U64(8), U64Sub(U64Max, U64(1))}

TableLines ==
    [data_bs : DataBlockSizes, hash_bs : HashBlockSizes, digest_size : DigestSizes,
     data_blocks : DataBlockCounts, hash_start : HashStarts,
     ti_len : {U64(0), U64(8)}, hash_dev_size : {U64(4), U64Max},
     logical_block_size : {512}, env : {"ok", "nomem"}]

InitGeo ==
    /\ \E a \in TableLines : v = [pc |-> "table", args |-> a, geo |-> GeoNone]
    /\ hw_retry = FALSE
    /\ nv = 0
    /\ disk_data = <<>> /\ disk_hash = <<>> /\ bufio = <<>>
    /\ io = [w \in IoSlots |-> IoOff]
    /\ uevents = 0
    /\ n_ios = 0 /\ n_faults = 0 /\ n_corrupt = 0 /\ n_evict = 0

\* dmsetup loads the table: verity_ctr runs; on an error verity_dtr has
\* freed everything before it returns
ctr_call(ub) ==
    /\ v.pc = "table"
    /\ LET geo == verity_ctr_geometry(v.args, ub)
       IN  v' = [v EXCEPT !.geo = geo,
                          !.pc = IF geo.error = "" THEN "constructed" ELSE "failed"]
    /\ UNCHANGED <<hw_retry, nv, disk_data, disk_hash, bufio, io, uevents,
                   n_ios, n_faults, n_corrupt, n_evict>>

\* the table is removed: verity_dtr
ctr_remove ==
    /\ v.pc = "constructed"
    /\ v' = [v EXCEPT !.pc = "removed"]
    /\ UNCHANGED <<hw_retry, nv, disk_data, disk_hash, bufio, io, uevents,
                   n_ios, n_faults, n_corrupt, n_evict>>

NextGeo == (\E ub \in {"zero", "wrap"} : ctr_call(ub)) \/ ctr_remove

SpecGeo == InitGeo /\ [][NextGeo]_vars

\* the messages verity_ctr leaves in ti->error
CtrErrors ==
    {"Cannot allocate verity structure", "Invalid data device block size",
     "Invalid hash device block size", "Invalid data blocks",
     "Data device is too small", "Invalid hash start", "Digest size too big",
     "Too many tree levels", "Hash device offset overflow", "Hash device is too small"}

(***************************************************************************)
(* Properties of the geometry.                                             *)
(***************************************************************************)
\* the table line has 4 KiB data blocks, 4 KiB hash blocks, 32-byte
\* digests and 1024 data blocks, and its target has been constructed
Table4K ==
    /\ v.pc = "constructed"
    /\ v.args.data_bs = 4096 /\ v.args.hash_bs = 4096
    /\ v.args.digest_size = 32 /\ v.args.data_blocks = U64(1024)

\* C13 as claimed: for that table line hash_per_block_bits = 7, levels = 2,
\* hash_level_block[1] = hash_start and hash_level_block[0] = hash_start + 8.
C13_Original ==
    Table4K
    => /\ v.geo.hash_per_block_bits = 7
       /\ v.geo.levels = 2
       /\ v.geo.hash_level_block[1] = v.args.hash_start
       /\ v.geo.hash_level_block[0] = U64Add(v.args.hash_start, U64(8))

\* C13 as amended: for that table line hash_per_block_bits = 7, levels = 2,
\* hash_level_block[1] = hash_start, and level 0 starts after the single
\* block of level 1, at hash_start + 1; its 8 blocks end the tree at
\* hash_blocks = hash_start + 9.
C13_Geometry4K ==
    Table4K
    => /\ v.geo.hash_per_block_bits = 7
       /\ v.geo.levels = 2
       /\ v.geo.hash_level_block[1] = v.args.hash_start
       /\ v.geo.hash_level_block[0] = U64Add(v.args.hash_start, U64(1))
       /\ v.geo.hash_blocks = U64Add(v.args.hash_start, U64(9))

\* the target of that table line with hash_start = 8 has been constructed
C13_Witness ==
    Table4K /\ v.args.hash_start = U64(8) /\ v.geo.levels = 2

\* the number of tree levels the table line a needs: the least l for which
\* one block of level l covers all data blocks (0 without data blocks)
DerivedLevels(a) ==
    IF U64IsZero(a.data_blocks) THEN 0
    ELSE CtrLevels(U64Sub(a.data_blocks, U64(1)),
                   fls(Pow2(fls(a.hash_bs)) \div a.digest_size), 0)

\* the table line a is one the claim says must be refused
BadGeometry(a) ==
    \/ ~IsPowerOfTwo(a.data_bs)
    \/ ~IsPowerOfTwo(a.hash_bs)
    \/ a.hash_bs < 2 * a.digest_size
    \/ DerivedLevels(a) > DM_VERITY_MAX_LEVELS

\* C14: verity_ctr fails, with a message in ti->error and no geometry left
\* behind, whenever the data or hash block size is not a power of two, the
\* hash block is smaller than two digests, or the table needs more than
\* DM_VERITY_MAX_LEVELS levels; and every target it constructs has
\* levels <= DM_VERITY_MAX_LEVELS.
C14_GeometryRefused ==
    /\ (v.pc # "table" /\ BadGeometry(v.args))
       => /\ v.pc = "failed"
          /\ v.geo.error \in CtrErrors
          /\ v.geo = CtrFail(v.geo.error)
    /\ v.pc \in {"constructed", "removed"}
       => /\ v.geo.error = ""
          /\ v.geo.levels <= DM_VERITY_MAX_LEVELS
          /\ v.geo.levels = DerivedLevels(v.args)

\* a table line with valid block sizes that needs 64 levels has been
\* refused for its depth
C14_Witness ==
    /\ v.pc = "failed" /\ v.geo.error = "Too many tree levels"
    /\ IsPowerOfTwo(v.args.data_bs) /\ IsPowerOfTwo(v.args.hash_bs)
    /\ DerivedLevels(v.args) = DM_VERITY_MAX_LEVELS + 1

(***************************************************************************)
(* Properties stated on the record of steps of a request.                  *)
(***************************************************************************)
\* the positions of the record of slot w
LogIdx(w) == 1 .. Len(io[w].log)

\* event i of slot w is the step op with result res on a block of type type
IsEv(w, i, op, type, res) ==
    /\ io[w].log[i].op = op /\ io[w].log[i].type = type /\ io[w].log[i].res = res

\* the position of the first release after position i (0 if none)
RelAfter(w, i) ==
    IF \E j \in LogIdx(w) : j > i /\ io[w].log[j].op = "rel"
    THEN CHOOSE j \in LogIdx(w) :
            /\ j > i /\ io[w].log[j].op = "rel"
            /\ \A k \in i + 1 .. j - 1 : io[w].log[k].op # "rel"
    ELSE 0

\* the positions of the verity_verify_level call that made the read at i
CallAfter(w, i) ==
    IF RelAfter(w, i) = 0 THEN i + 1 .. Len(io[w].log) ELSE i + 1 .. RelAfter(w, i)

\* data block number b of the request (block + b) ended digest-matched,
\* repaired by FEC or zero-filled
DataDone(w, b) ==
    \E i \in LogIdx(w) :
        /\ io[w].log[i].b = b
        /\ \/ IsEv(w, i, "cmp", DM_VERITY_BLOCK_TYPE_DATA, "match")
           \/ IsEv(w, i, "fec", DM_VERITY_BLOCK_TYPE_DATA, "ok")
           \/ IsEv(w, i, "zero", DM_VERITY_BLOCK_TYPE_DATA, "ok")

\* the hash block read at position i was marked verified, or was skipped
\* unused, or was matched or repaired before its digest was used
HashUsedVerified(w, i) ==
    \/ io[w].log[i].res = "verified"
    \/ i < Len(io[w].log) /\ io[w].log[i + 1].op = "rel"
    \/ \E j \in CallAfter(w, i) :
          \/ IsEv(w, j, "cmp", DM_VERITY_BLOCK_TYPE_METADATA, "match")
          \/ IsEv(w, j, "fec", DM_VERITY_BLOCK_TYPE_METADATA, "ok")

\* verity_handle_err returned 0 to the request of slot w at least once
Continued(w) == \E i \in LogIdx(w) : io[w].log[i].op = "he" /\ io[w].log[i].res = "continue"

\* every block of the request ended verified or zero-filled on hash blocks
\* that were verified
AllVerified(w) ==
    /\ \A b \in 0 .. io[w].n_blocks - 1 : DataDone(w, b)
    /\ \A i \in LogIdx(w) :
          (io[w].log[i].op = "read" /\ io[w].log[i].res # "err") => HashUsedVerified(w, i)

\* C15: a completed request has failed (bi_error # 0), or was delivered
\* after verity_handle_err returned 0 (unverified data), or every block of
\* it was digest-matched by one of the engines, repaired by FEC or
\* zero-filled on hash blocks that were verified or repaired; data is
\* delivered unverified only outside EIO mode, so in EIO mode bi_error = 0
\* implies the last.  No block is both zero-filled and matched, repaired
\* or reported, and a block verified without FEC is zero-filled or has the
\* content the tree certifies.
C15_Outcomes ==
    \A w \in IoSlots :
        Completed(w)
        => /\ (io[w].bi_error = 0 /\ ~Continued(w)) => AllVerified(w)
           /\ (io[w].bi_error = 0 /\ Continued(w))
              => v.mode \in {DM_VERITY_MODE_LOGGING, DM_VERITY_MODE_RESTART}
           /\ (io[w].bi_error = 0 /\ v.mode = DM_VERITY_MODE_EIO) => AllVerified(w)
           /\ \A b \in 0 .. io[w].n_blocks - 1 :
                 ~(/\ \E i \in LogIdx(w) :
                         io[w].log[i].b = b /\ io[w].log[i].op = "zero"
                   /\ \E i \in LogIdx(w) :
                         /\ io[w].log[i].b = b
                         /\ \/ IsEv(w, i, "cmp", DM_VERITY_BLOCK_TYPE_DATA, "match")
                            \/ IsEv(w, i, "fec", DM_VERITY_BLOCK_TYPE_DATA, "ok")
                            \/ io[w].log[i].op = "he"
                               /\ io[w].log[i].type = DM_VERITY_BLOCK_TYPE_DATA)
           /\ (io[w].bi_error = 0 /\ io[w].rd_err = 0 /\ AllVerified(w)
               /\ \A i \in LogIdx(w) : io[w].log[i].op # "fec")
              => \A b \in 0 .. io[w].n_blocks - 1 :
                    \/ OrigBlock(w, io[w].block + b) = GoodData(io[w].block + b)
                    \/ \E i \in LogIdx(w) : io[w].log[i].b = b /\ io[w].log[i].op = "zero"

\* in EIO mode a request of two blocks has succeeded with one block
\* zero-filled and the other matched by the second engine after the first
\* returned a wrong digest
C15_Witness ==
    \E w \in IoSlots :
        /\ Completed(w) /\ io[w].bi_error = 0 /\ v.mode = DM_VERITY_MODE_EIO
        /\ io[w].n_blocks = 2 /\ AllVerified(w)
        /\ \E i, j \in LogIdx(w) :
              /\ IsEv(w, i, "zero", DM_VERITY_BLOCK_TYPE_DATA, "ok")
              /\ IsEv(w, j, "sha256", DM_VERITY_BLOCK_TYPE_DATA, "ok")

\* the steps (op, res) of the verity_verify_level call that made the read
\* at position i, up to its release
LevelSteps(w, i) ==
    LET last == IF RelAfter(w, i) = 0 THEN Len(io[w].log) ELSE RelAfter(w, i) - 1
    IN  [k \in 1 .. last - i |-> <<io[w].log[i + k].op, io[w].log[i + k].res>>]

\* the step sequences of a verity_verify_level call on an unverified block
\* with skip_unverified = false, in the order first engine, second engine,
\* FEC, verity_handle_err
LevelRuns ==
    LET p == <<"sha2ce", "ok">>
        f == <<"sha256", "ok">>
        mm == <<"cmp", "mismatch">>
        m == <<"cmp", "match">>
    IN  {<<p, m>>,
         <<p, mm, f, m>>,
         <<p, mm, f, mm, <<"fec", "ok">> >>,
         <<p, mm, f, mm, <<"fec", "fail">>, <<"he", "fail">> >>,
         <<p, mm, f, mm, <<"fec", "fail">>, <<"he", "continue">> >>,
         << <<"sha2ce", "err">> >>,
         <<p, mm, <<"sha256", "err">> >>}

IsPrefix(s, t) == Len(s) <= Len(t) /\ \A k \in 1 .. Len(s) : s[k] = t[k]

\* position i of the record of slot w is the read of an unverified block by
\* a call with skip_unverified = false
UnverifiedRead(w, i) ==
    /\ i > 1
    /\ IsEv(w, i, "read", DM_VERITY_BLOCK_TYPE_METADATA, "unverified")
    /\ io[w].log[i - 1].op = "level" /\ io[w].log[i - 1].res = "verify"

\* C16: a verity_verify_level call with skip_unverified = false on an
\* unverified block hashes with the first engine, then on a mismatch with
\* the second, then on a mismatch tries FEC, then on a failure calls
\* verity_handle_err, each once and in this order, all on the block it
\* read; a match of either engine leaves hash_verified set, with no FEC and
\* no verity_handle_err call, and the call then returns 0 with the digest
\* at the block's offset in want_digest.
C16_LevelStepOrder ==
    /\ [](\A w \in IoSlots :
            /\ \A i \in LogIdx(w) :
                  UnverifiedRead(w, i)
                  => /\ \E run \in LevelRuns : IsPrefix(LevelSteps(w, i), run)
                     /\ RelAfter(w, i) # 0 => LevelSteps(w, i) \in LevelRuns
                     /\ \A j \in CallAfter(w, i) :
                           /\ io[w].log[j].block = io[w].log[i].block
                           /\ io[w].log[j].type = DM_VERITY_BLOCK_TYPE_METADATA
            /\ (io[w].pc = "vl_copy" /\ io[w].log[Len(io[w].log)].op = "cmp")
               => /\ io[w].log[Len(io[w].log)].res = "match"
                  /\ bufio[io[w].buf].hash_verified)
    /\ [][\A w \in IoSlots :
            (io[w].pc = "vl_copy" /\ io'[w] # io[w])
            => /\ io'[w].r = 0
               /\ io'[w].want_digest =
                     DigestAtOffset(bufio[io[w].buf].data, VlPos(io[w]).offset)
               /\ io'[w].buf = NoBuf]_vars

\* one request has seen the second engine match a hash block after the
\* first returned a wrong digest, and has gone through both engines, FEC
\* and verity_handle_err on another
C16_Witness ==
    \E w \in IoSlots :
        \E i, j \in LogIdx(w) :
            /\ UnverifiedRead(w, i) /\ RelAfter(w, i) # 0
            /\ LevelSteps(w, i) =
                  << <<"sha2ce", "ok">>, <<"cmp", "mismatch">>,
                     <<"sha256", "ok">>, <<"cmp", "match">> >>
            /\ UnverifiedRead(w, j) /\ RelAfter(w, j) # 0
            /\ Len(LevelSteps(w, j)) = 6

\* the number of steps op on block (type, block) recorded by slot w while
\* it verified data block number b of its request
StepCount(w, b, op, type, block) ==
    Cardinality({i \in LogIdx(w) :
                    /\ io[w].log[i].b = b /\ io[w].log[i].op = op
                    /\ io[w].log[i].type = type /\ io[w].log[i].block = block})

\* the blocks (type, block) that slot w hashed, repaired or reported
StepBlocks(w) ==
    {<<io[w].log[i].type, io[w].log[i].block>> : i \in
        {k \in LogIdx(w) : io[w].log[k].op \in {"sha2ce", "sha256", "fec", "he"}}}

\* C17: while one data block of a request is verified, every block involved
\* (the data block and the hash blocks on its path) is hashed at most once
\* by tfm_sha2ce and at most once by tfm_sha256, gets at most one
\* verity_fec_decode call and at most one verity_handle_err call; a data
\* digest mismatch with tfm_sha2ce does not have the path of hash blocks
\* verified, reported and counted again.
C17_Original ==
    \A w \in IoSlots :
        \A b \in 0 .. MaxReqBlocks - 1 :
            \A tb \in StepBlocks(w) :
                \A op \in {"sha2ce", "sha256", "fec", "he"} :
                    StepCount(w, b, op, tb[1], tb[2]) <= 1

\* for one data block of a request the same hash block was reported to
\* verity_handle_err twice, once on each side of the goto LABEL taken on the
\* data digest mismatch, and corrupted_errs counts it twice
C17_Witness ==
    \E w \in IoSlots :
        \E i, j \in LogIdx(w) :
            /\ i < j
            /\ io[w].log[i].op = "he" /\ io[w].log[j].op = "he"
            /\ io[w].log[i].type = DM_VERITY_BLOCK_TYPE_METADATA
            /\ io[w].log[j].type = DM_VERITY_BLOCK_TYPE_METADATA
            /\ io[w].log[i].block = io[w].log[j].block
            /\ io[w].log[i].b = io[w].log[j].b
            /\ \E k \in i + 1 .. j - 1 :
                  /\ IsEv(w, k, "cmp", DM_VERITY_BLOCK_TYPE_DATA, "mismatch")
                  /\ io[w].log[k].b = io[w].log[i].b
            /\ v.corrupted_errs = 2

\* the positions of the verity_hash_for_block calls in the record of slot w
HfbIdx(w) == {i \in LogIdx(w) : io[w].log[i].op = "hfb"}

\* the last position of the call made at position i
WalkEnd(w, i) ==
    IF \E j \in HfbIdx(w) : j > i
    THEN (CHOOSE j \in HfbIdx(w) : j > i /\ \A k \in HfbIdx(w) : k > i => j <= k) - 1
    ELSE Len(io[w].log)

\* the verity_verify_level calls of the loop of the call made at i, that is
\* all but the first call (skip_unverified = true)
LoopCalls(w, i) ==
    {k \in i + 2 .. WalkEnd(w, i) : io[w].log[k].op = "level"}

\* slot w is inside verity_verify_level
InWalk(w) ==
    \/ io[w].pc \in {"vl_read", "vl_hash", "vl_cmp", "vl_fec", "vl_he_ret", "vl_copy"}
    \/ io[w].pc = "he" /\ io[w].he_from = "level"

\* the call made at i has returned
WalkComplete(w, i) == WalkEnd(w, i) < Len(io[w].log) \/ ~InWalk(w)

\* a step between positions k and e is a failed read, an engine error or a
\* verity_handle_err call that returned nonzero
CallFailed(w, k, e) ==
    \E j \in k + 1 .. e :
        /\ io[w].log[j].type = DM_VERITY_BLOCK_TYPE_METADATA
        /\ \/ io[w].log[j].res = "err"
           \/ io[w].log[j].op = "he" /\ io[w].log[j].res = "fail"

\* the hash block of level l on the path of the data block of the call at i
PathBlock(w, i, l) == verity_hash_at_level(v.version, io[w].log[i].block, l).hash_block

\* C18: verity_hash_for_block with levels > 0 first calls
\* verity_verify_level for level 0 with skip_unverified = true; if that
\* block is verified (or its read fails) no other hash block is read or
\* hashed and the digest comes from it.  If it is unverified, want_digest
\* is set to root_digest and verity_verify_level runs for levels - 1 down
\* to 0, one level at a time, each call with the digest the call above
\* left in want_digest; the loop stops at the first call that returns
\* nonzero and visits no lower level.
C18_HashForBlockOrder ==
    /\ [](\A w \in IoSlots : \A i \in HfbIdx(w) :
            LET e == WalkEnd(w, i)
                lg == io[w].log
                L == LoopCalls(w, i)
            IN  /\ levels # 0
                /\ IsEv(w, i + 1, "level", DM_VERITY_BLOCK_TYPE_METADATA, "skip")
                /\ lg[i + 1].block = PathBlock(w, i, 0)
                /\ i + 2 <= e
                   => lg[i + 2].op = "read" /\ lg[i + 2].block = PathBlock(w, i, 0)
                /\ (i + 2 <= e /\ lg[i + 2].res \in {"verified", "err"})
                   => /\ L = {}
                      /\ \A k \in i + 3 .. e :
                            lg[k].type = DM_VERITY_BLOCK_TYPE_METADATA
                            => /\ lg[k].op = "rel" /\ lg[k].block = PathBlock(w, i, 0)
                               /\ lg[i + 2].res = "verified"
                /\ (i + 2 <= e /\ lg[i + 2].res = "unverified")
                   => /\ lg[i + 3].op = "rel"
                      /\ IsEv(w, i + 4, "level", DM_VERITY_BLOCK_TYPE_METADATA, "verify")
                      /\ lg[i + 4].block = PathBlock(w, i, levels - 1)
                /\ \A k \in L :
                      /\ io[w].log[k].res = "verify"
                      /\ lg[k].block = PathBlock(w, i, LevelOf(lg[k].block))
                      /\ \A j \in k + 1 .. e :
                            (lg[j].type = DM_VERITY_BLOCK_TYPE_METADATA
                             /\ \A k2 \in L : ~(k < k2 /\ k2 <= j))
                            => lg[j].block = lg[k].block
                      /\ \A k2 \in L :
                            (k < k2 /\ \A k3 \in L : ~(k < k3 /\ k3 < k2))
                            => /\ LevelOf(lg[k2].block) = LevelOf(lg[k].block) - 1
                               /\ ~CallFailed(w, k, k2)
                /\ (WalkComplete(w, i) /\ L # {})
                   => \E k \in L :
                         /\ \A k2 \in L : k2 <= k
                         /\ LevelOf(lg[k].block) = 0 \/ CallFailed(w, k, e))
    /\ [][\A w \in IoSlots :
            (/\ Len(io'[w].log) > Len(io[w].log)
             /\ io'[w].log[Len(io'[w].log)].op = "level"
             /\ io'[w].log[Len(io'[w].log)].res = "verify")
            => IF LevelOf(io'[w].log[Len(io'[w].log)].block) = levels - 1
               THEN io'[w].want_digest = v.root_digest
               ELSE /\ io[w].pc = "vl_copy"
                    /\ io[w].vl_level = LevelOf(io'[w].log[Len(io'[w].log)].block) + 1
                    /\ io'[w].want_digest =
                          DigestAtOffset(bufio[io[w].buf].data, VlPos(io[w]).offset)]_vars

\* one request has taken the digest from a verified level-0 block for one
\* data block and has walked from the top level down to level 0 for
\* another
C18_Witness ==
    \E w \in IoSlots :
        \E i, j \in HfbIdx(w) :
            /\ i + 2 <= WalkEnd(w, i)
            /\ io[w].log[i + 2].res = "verified" /\ WalkComplete(w, i)
            /\ Cardinality(LoopCalls(w, j)) = levels /\ WalkComplete(w, j)
            /\ ~CallFailed(w, j, WalkEnd(w, j))

\* position i of the record of slot w is a hash with either engine that
\* failed
EngineError(w, i) ==
    io[w].log[i].op \in {"sha2ce", "sha256"} /\ io[w].log[i].res = "err"

\* C19: when crypto_shash fails (r < 0) while a hash block or a data block
\* is hashed, with either engine, the request fails with that error: the
\* other engine is not tried, verity_fec_decode and verity_handle_err are
\* not called and no further block is verified; the step leaves
\* hash_verified of every buffer, corrupted_errs and the uevents as they
\* were; a hash buffer held is released.
C19_EngineErrorFatal ==
    /\ [](\A w \in IoSlots : \A i \in LogIdx(w) :
            EngineError(w, i)
            => /\ io[w].log[i].type = DM_VERITY_BLOCK_TYPE_DATA => i = Len(io[w].log)
               /\ io[w].log[i].type = DM_VERITY_BLOCK_TYPE_METADATA
                  => /\ Len(io[w].log) = i + 1
                     /\ io[w].log[i + 1].op = "rel"
                     /\ io[w].log[i + 1].block = io[w].log[i].block
               /\ io[w].buf = NoBuf
               /\ io[w].r = -ENOMEM
               /\ \/ io[w].pc = "io_hfb_ret"
                     /\ io[w].log[i].type = DM_VERITY_BLOCK_TYPE_METADATA
                  \/ io[w].pc = "done" /\ io[w].bi_error = -ENOMEM)
    /\ [][\A w \in IoSlots :
            (/\ Len(io'[w].log) > Len(io[w].log)
             /\ \E k \in Len(io[w].log) + 1 .. Len(io'[w].log) :
                   /\ io'[w].log[k].op \in {"sha2ce", "sha256"}
                   /\ io'[w].log[k].res = "err")
            => /\ bufio' = bufio
               /\ v' = v
               /\ uevents' = uevents /\ nv' = nv]_vars

\* a request has failed with the engine's error after tfm_sha256 failed on
\* a hash block, which followed a mismatch with tfm_sha2ce
C19_Witness ==
    \E w \in IoSlots :
        /\ Completed(w) /\ io[w].bi_error = -ENOMEM
        /\ \E i \in LogIdx(w) :
              /\ i > 1
              /\ IsEv(w, i, "sha256", DM_VERITY_BLOCK_TYPE_METADATA, "err")
              /\ IsEv(w, i - 1, "cmp", DM_VERITY_BLOCK_TYPE_METADATA, "mismatch")

\* position j of the record of slot w begins another call or a step on the
\* data block
Starts(w, j) ==
    \/ io[w].log[j].op \in {"level", "hfb"}
    \/ io[w].log[j].type = DM_VERITY_BLOCK_TYPE_DATA

\* the last position of the verity_verify_level call whose dm_bufio_read is
\* at position i of the record of slot w
CallEnd(w, i) ==
    CHOOSE j \in i .. Len(io[w].log) :
        /\ j = Len(io[w].log) \/ Starts(w, j + 1)
        /\ \A k \in i + 1 .. j : ~Starts(w, k)

\* the dm_bufio_release calls of the call whose read is at position i
Releases(w, i) == {j \in i + 1 .. CallEnd(w, i) : io[w].log[j].op = "rel"}

\* the call whose read is at position i has returned
CallReturned(w, i) == CallEnd(w, i) < Len(io[w].log) \/ ~InWalk(w)

\* C20: every dm_bufio_read of verity_verify_level that succeeds is
\* followed, before the call returns, by exactly one dm_bufio_release of
\* the same block, whichever way the call ends; a failed read returns at
\* once with no release; no release happens without a read.  So a request
\* holds a hash buffer only inside verity_verify_level, none between two
\* calls and none after it completed.
C20_ReadsReleased ==
    \A w \in IoSlots :
        /\ \A i \in LogIdx(w) :
              io[w].log[i].op = "read"
              => IF io[w].log[i].res = "err"
                 THEN /\ Releases(w, i) = {}
                      /\ CallEnd(w, i) = i
                      /\ CallReturned(w, i)
                 ELSE /\ Cardinality(Releases(w, i)) <= 1
                      /\ \A j \in Releases(w, i) :
                            /\ j = CallEnd(w, i)
                            /\ io[w].log[j].block = io[w].log[i].block
                      /\ CallReturned(w, i) <=> Releases(w, i) # {}
                      /\ ~CallReturned(w, i) => io[w].buf = io[w].log[i].block
        /\ \A j \in LogIdx(w) :
              io[w].log[j].op = "rel"
              => \E i \in 1 .. j - 1 :
                    /\ io[w].log[i].op = "read" /\ io[w].log[i].res # "err"
                    /\ io[w].log[i].block = io[w].log[j].block
                    /\ \A k \in i + 1 .. j - 1 :
                          ~Starts(w, k) /\ io[w].log[k].op # "rel"
        /\ ~InWalk(w) => io[w].buf = NoBuf

\* a completed request has released the buffer of a block it skipped as
\* unverified, of a block verity_handle_err let pass and of a block it
\* found verified
C20_Witness ==
    \E w \in IoSlots :
        /\ Completed(w) /\ io[w].buf = NoBuf
        /\ \E i, j, k \in LogIdx(w) :
              /\ IsEv(w, i, "read", DM_VERITY_BLOCK_TYPE_METADATA, "unverified")
              /\ io[w].log[i + 1].op = "rel"
              /\ IsEv(w, j, "he", DM_VERITY_BLOCK_TYPE_METADATA, "continue")
              /\ io[w].log[j + 1].op = "rel"
              /\ IsEv(w, k, "read", DM_VERITY_BLOCK_TYPE_METADATA, "verified")
              /\ io[w].log[k + 1].op = "rel"

(***************************************************************************)
(* verity_prefetch_io on its own.  v holds the geometry verity_ctr derived *)
(* (small integers, no wrap-around), the module parameter                  *)
(* prefetch_cluster, the dm_verity_prefetch_work queued by verity_map and  *)
(* the dm_bufio_prefetch calls made, in order.                             *)
(***************************************************************************)
RECURSIVE BitAndNot(_, _)
\* a & ~m
BitAndNot(a, m) ==
    IF a = 0 THEN 0
    ELSE 2 * BitAndNot(a \div 2, m \div 2) + (a % 2) * (1 - (m % 2))

RECURSIVE BitOr(_, _)
\* a | m
BitOr(a, m) ==
    IF a = 0 /\ m = 0 THEN 0
    ELSE 2 * BitOr(a \div 2, m \div 2) + (IF a % 2 = 1 \/ m % 2 = 1 THEN 1 ELSE 0)

RECURSIVE BitAnd(_, _)
\* a & m
BitAnd(a, m) ==
    IF a = 0 \/ m = 0 THEN 0
    ELSE 2 * BitAnd(a \div 2, m \div 2) + (a % 2) * (m % 2)

\* the geometry of lines 3618-3647 for a table line of small numbers
PfGeometry(dbits, hpb, nblocks, start) ==
    LET nlevels == IF nblocks # 0 THEN LevelsFrom(nblocks, hpb, 0) ELSE 0
    IN  [data_dev_block_bits |-> dbits, hash_per_block_bits |-> hpb,
         data_blocks |-> nblocks, hash_start |-> start, levels |-> nlevels,
         hash_level_block |->
            [l \in 0 .. nlevels - 1 |-> HashPositionAfter(start, nblocks, hpb, nlevels, l + 1)],
         hash_blocks |-> HashPositionAfter(start, nblocks, hpb, nlevels, 0)]

PfGeometries ==
    {PfGeometry(dbits, hpb, nblocks, start) :
        dbits \in {1, 2}, hpb \in {1, 2}, nblocks \in {1, 2, 5, 9, 17}, start \in {0, 1, 3}}

\* values written to /sys/module/dm_verity/parameters/prefetch_cluster (bytes)
PrefetchClusters == {0, 1, 2, 4, 8, 12, 16, 64}

\* the default of the parameter, 262144 bytes in the source, at the scale
\* of the block sizes of PfGeometries
DM_VERITY_DEFAULT_PREFETCH_SIZE == 64

\* verity_hash_at_level with hash_block only (offset = NULL)
PfHashBlock(g, block, level) ==
    g.hash_level_block[level]
        + Shr(Shr(block, level * g.hash_per_block_bits), g.hash_per_block_bits)

\* the rounding applied to every level
PrefetchRounds_EveryLevel(i) == TRUE

\* line 3117: if (!i)
PrefetchRounds(i) == i = 0

\* lines 3129-3130 left out
PrefetchEnd_Unbounded(hash_block_end, nblocks) == hash_block_end

\* lines 3129-3130: the end of the range kept inside the hash area
PrefetchEnd(hash_block_end, nblocks) ==
    IF hash_block_end >= nblocks THEN nblocks - 1 ELSE hash_block_end

\* lines 3115-3134: the range [start, start + n) handed to dm_bufio_prefetch
\* for level i, with the value read from dm_verity_prefetch_cluster
PrefetchRange(g, block, n_blocks, i, prefetch_cluster) ==
    LET hash_block_start == PfHashBlock(g, block, i)
        hash_block_end == PfHashBlock(g, block + n_blocks - 1, i)
        shifted == Shr(prefetch_cluster, g.data_dev_block_bits)
        cluster == IF BitAnd(shifted, shifted - 1) # 0 THEN Shl(1, fls(shifted))
                   ELSE shifted
        s == BitAndNot(hash_block_start, cluster - 1)
        ored == BitOr(hash_block_end, cluster - 1)
        e == PrefetchEnd(ored, g.hash_blocks)
    IN  IF PrefetchRounds(i) /\ shifted # 0
        THEN [level |-> i, start |-> s, n |-> e - s + 1,
              cluster |-> prefetch_cluster]
        ELSE [level |-> i, start |-> hash_block_start,
              n |-> hash_block_end - hash_block_start + 1,
              cluster |-> prefetch_cluster]

\* the module parameter starts at its default
InitPf ==
    /\ \E g \in PfGeometries :
          v = [pc |-> "ready", g |-> g,
               dm_verity_prefetch_cluster |-> DM_VERITY_DEFAULT_PREFETCH_SIZE,
               block |-> 0, n_blocks |-> 0, i |-> 0, hints |-> <<>>]
    /\ hw_retry = FALSE
    /\ nv = 0
    /\ disk_data = <<>> /\ disk_hash = <<>> /\ bufio = <<>>
    /\ io = [w \in IoSlots |-> IoOff]
    /\ uevents = 0
    /\ n_ios = 0 /\ n_faults = 0 /\ n_corrupt = 0 /\ n_evict = 0

\* verity_map accepts a read of n blocks from block and calls
\* verity_submit_prefetch; without memory for the work item nothing is queued
verity_submit_prefetch(block, n, mem) ==
    /\ v.pc = "ready"
    /\ block >= 0 /\ n >= 1 /\ block + n <= v.g.data_blocks
    /\ v' = [v EXCEPT !.block = block, !.n_blocks = n, !.i = v.g.levels - 2,
                      !.pc = IF mem = "ok" THEN "queued" ELSE "freed"]
    /\ UNCHANGED <<hw_retry, nv, disk_data, disk_hash, bufio, io, uevents,
                   n_ios, n_faults, n_corrupt, n_evict>>

\* one pass of the loop of verity_prefetch_io, or its end (kfree)
verity_prefetch_io ==
    /\ v.pc = "queued"
    /\ v' = IF v.i >= 0
            THEN [v EXCEPT !.hints =
                              Append(@, PrefetchRange(v.g, v.block, v.n_blocks, v.i,
                                                      v.dm_verity_prefetch_cluster)),
                           !.i = v.i - 1]
            ELSE [v EXCEPT !.pc = "freed"]
    /\ UNCHANGED <<hw_retry, nv, disk_data, disk_hash, bufio, io, uevents,
                   n_ios, n_faults, n_corrupt, n_evict>>

\* a write to the module parameter while a prefetch is queued or running
prefetch_cluster_store(c) ==
    /\ v.pc = "queued"
    /\ c \in PrefetchClusters /\ c # v.dm_verity_prefetch_cluster
    /\ v.hints = <<>>
    /\ v' = [v EXCEPT !.dm_verity_prefetch_cluster = c]
    /\ UNCHANGED <<hw_retry, nv, disk_data, disk_hash, bufio, io, uevents,
                   n_ios, n_faults, n_corrupt, n_evict>>

NextPf ==
    \/ \E block \in 0 .. 16, n \in 1 .. 17, mem \in {"ok", "nomem"} :
          verity_submit_prefetch(block, n, mem)
    \/ verity_prefetch_io
    \/ \E c \in PrefetchClusters : prefetch_cluster_store(c)

SpecPf == InitPf /\ [][NextPf]_vars

\* C21: verity_prefetch_io calls dm_bufio_prefetch once per level, for the
\* levels levels - 2 down to 0 in this order and never for levels - 1, so
\* not at all when levels <= 1; for every level above 0 the range is the
\* hash blocks of the level from the one of the first data block to the one
\* of the last; only the range of level 0 is changed by prefetch_cluster.
C21_PrefetchLevels ==
    (v.pc \in {"queued", "freed"})
    => /\ \A k \in 1 .. Len(v.hints) :
             /\ v.hints[k].level = v.g.levels - 1 - k
             /\ v.hints[k].level >= 0
             /\ v.hints[k].level > 0
                => /\ v.hints[k].start = PfHashBlock(v.g, v.block, v.hints[k].level)
                   /\ v.hints[k].start + v.hints[k].n - 1 =
                         PfHashBlock(v.g, v.block + v.n_blocks - 1, v.hints[k].level)
                   /\ v.hints[k].start >= v.g.hash_level_block[v.hints[k].level]
                   /\ v.hints[k].start + v.hints[k].n
                         <= v.g.hash_level_block[v.hints[k].level - 1]
       /\ Len(v.hints) = v.g.levels - 2 - v.i
       /\ v.g.levels <= 1 => v.hints = <<>>
       /\ (v.pc = "freed" /\ v.i < 0 /\ v.g.levels > 1)
          => Len(v.hints) = v.g.levels - 1

\* a prefetch of a tree of five levels has ended with four calls, the last
\* one for level 0 widened by the cluster
C21_Witness ==
    /\ v.pc = "freed" /\ v.g.levels = 5 /\ Len(v.hints) = 4
    /\ v.hints[4].level = 0
    /\ v.hints[4].n > PfHashBlock(v.g, v.block + v.n_blocks - 1, 0)
                        - PfHashBlock(v.g, v.block, 0) + 1
    /\ v.hints[1].level = 3

\* the dm_bufio_prefetch calls for level 0 made so far
Level0Hints == {k \in 1 .. Len(v.hints) : v.hints[k].level = 0}

\* prefetch_cluster converted to blocks (line 3120)
ClusterBlocks(h) == h.cluster \div Pow2(v.g.data_dev_block_bits)

\* the largest power of two not above c
PowerOfTwoBelow(c) ==
    CHOOSE p \in {Pow2(e) : e \in 0 .. 6} : p <= c /\ 2 * p > c

\* the first and the last level-0 hash block the request needs
NeededFirst == PfHashBlock(v.g, v.block, 0)

NeededLast == PfHashBlock(v.g, v.block + v.n_blocks - 1, 0)

\* C30 as claimed: the level-0 range after rounding contains every level-0
\* hash block the request needs, ends at or before the last hash block,
\* does not start below the first block of the level-0 region and is not
\* empty; a cluster of zero blocks gives no rounding, another cluster is
\* rounded down to a power of two.
C30_Original ==
    \A k \in Level0Hints :
        LET h == v.hints[k]
        IN  /\ h.start <= NeededFirst /\ NeededLast <= h.start + h.n - 1
            /\ h.start + h.n - 1 <= v.g.hash_blocks - 1
            /\ h.start >= v.g.hash_level_block[0]
            /\ h.n > 0
            /\ ClusterBlocks(h) = 0 => h.start = NeededFirst /\ h.n = NeededLast - NeededFirst + 1
            /\ ClusterBlocks(h) # 0
               => h.start % PowerOfTwoBelow(ClusterBlocks(h)) = 0

\* C30 as the code has it: the level-0 range contains every level-0 hash
\* block the request needs, ends at or before the last hash block and is
\* not empty; its start is the first needed block rounded down to a
\* multiple of the cluster, counted from block 0 of the hash device, so it
\* can lie below the level-0 region (in a higher level or below
\* hash_start); its end is the last needed block rounded up, or the last
\* hash block.  A cluster of zero blocks gives no rounding, another
\* cluster is rounded down to a power of two.
C30_ClusterRange ==
    \A k \in Level0Hints :
        LET h == v.hints[k]
            c == ClusterBlocks(h)
        IN  /\ h.start <= NeededFirst /\ NeededLast <= h.start + h.n - 1
            /\ h.start + h.n - 1 <= v.g.hash_blocks - 1
            /\ h.start >= 0
            /\ h.n > 0
            /\ c = 0 => h.start = NeededFirst /\ h.n = NeededLast - NeededFirst + 1
            /\ c # 0
               => LET p == PowerOfTwoBelow(c)
                      up == NeededLast - (NeededLast % p) + p - 1
                  IN  /\ h.start = NeededFirst - (NeededFirst % p)
                      /\ h.start + h.n - 1 =
                            IF up >= v.g.hash_blocks THEN v.g.hash_blocks - 1 ELSE up

\* a cluster of 6 blocks, used as 4, has moved the start of the level-0
\* range below the level-0 region and its end was cut at the last hash block
C30_Witness ==
    \E k \in Level0Hints :
        /\ ClusterBlocks(v.hints[k]) = 6
        /\ v.hints[k].start < v.g.hash_level_block[0]
        /\ v.hints[k].start + v.hints[k].n = v.g.hash_blocks
        /\ NeededLast % 4 # 3

\* verity_handle_err returned 0 for hash block hb to the request of slot w
ContinuedOn(w, hb) ==
    \E i \in LogIdx(w) :
        /\ IsEv(w, i, "he", DM_VERITY_BLOCK_TYPE_METADATA, "continue")
        /\ io[w].log[i].block = hb

\* C22: a hash block for which verity_handle_err returned 0 keeps
\* hash_verified unset, and every later request for a data block below it
\* verifies it again, at every level, also when the level-0 block below it
\* has been marked verified in the meantime: such a request does not take
\* its digest from the level-0 block without reading the block above.
C22_Original ==
    /\ [][\A w \in IoSlots :
            (/\ io[w].pc = "vl_he_ret" /\ io[w].he_ret = 0
             /\ io'[w] # io[w])
            => ~bufio'[io[w].buf].hash_verified]_vars
    /\ [][\A w1, w2 \in IoSlots :
            (/\ w1 # w2
             /\ io[w1].pc = "done"
             /\ io[w2].pc = "vl_read" /\ io[w2].vl_skip
             /\ io'[w2] # io[w2])
            => \A hb \in PathOf(v.version, io[w2].block + io[w2].b) :
                  (ContinuedOn(w1, hb) /\ ~bufio[hb].hash_verified)
                  => io'[w2].pc # "vl_copy"]_vars

\* a request has taken its digest from a verified level-0 block while the
\* block above it is still unverified after verity_handle_err returned 0
\* for it to an earlier request
C22_Witness ==
    \E w1, w2 \in IoSlots :
        /\ w1 # w2
        /\ io[w1].pc = "done"
        /\ io[w2].pc = "vl_copy" /\ io[w2].vl_skip /\ io[w2].log[Len(io[w2].log) - 2].op = "hfb"
        /\ \E hb \in PathOf(v.version, io[w2].block + io[w2].b) :
              /\ ContinuedOn(w1, hb)
              /\ ~bufio[hb].hash_verified
              /\ hb # io[w2].buf

\* the hash block and offset of the level above the one slot w is verifying
ParentPos(w) == verity_hash_at_level(v.version, io[w].block + io[w].b, io[w].vl_level + 1)

\* slot w compares the digest of a block of its level with a digest that is
\* root_digest (top level) or comes from a verified block of the level above
TrustedWant(w) ==
    IF io[w].vl_level = levels - 1
    THEN io[w].want_digest = v.root_digest
    ELSE /\ bufio[ParentPos(w).hash_block].present
         /\ bufio[ParentPos(w).hash_block].hash_verified
         /\ io[w].want_digest =
               DigestAtOffset(bufio[ParentPos(w).hash_block].data, ParentPos(w).offset)

\* C23: whenever a hash block is hashed and compared, want_digest is
\* root_digest (top level) or was read from a block of the level above
\* whose hash_verified is set, so that a block with hash_verified set has
\* the content root_digest certifies; in every mode, also after
\* verity_handle_err returned 0 for the block above.
C23_Original ==
    /\ \A w \in IoSlots : io[w].pc = "vl_cmp" => TrustedWant(w)
    /\ \A hb \in HashBlocks :
          (bufio[hb].present /\ bufio[hb].hash_verified)
          => bufio[hb].data = GoodHash(v.version, hb)

\* a level-0 block has been marked verified by a comparison with a digest
\* from a top-level block that is unverified, after verity_handle_err
\* returned 0 for that block
C23_Witness ==
    \E w \in IoSlots :
        /\ io[w].pc = "vl_copy" /\ io[w].vl_level = 0 /\ ~io[w].vl_skip
        /\ io[w].log[Len(io[w].log)].op = "cmp"
        /\ io[w].log[Len(io[w].log)].res = "match"
        /\ bufio[io[w].buf].hash_verified
        /\ ~bufio[ParentPos(w).hash_block].hash_verified
        /\ ContinuedOn(w, ParentPos(w).hash_block)

\* hash_verified of hash block hb is set by the step
FlagSet(hb) ==
    /\ ~(bufio[hb].present /\ bufio[hb].hash_verified)
    /\ bufio'[hb].present /\ bufio'[hb].hash_verified

\* the last step recorded by slot w after the step
LastStep(w) == io'[w].log[Len(io'[w].log)]

\* C24: verity_verify_level sets hash_verified of a hash block only when
\* the digest computed by tfm_sha2ce equals want_digest, when the digest
\* computed by tfm_sha256 equals want_digest, or when verity_fec_decode
\* repaired the block; after an unrepaired mismatch the flag is left as it
\* was, whether verity_handle_err returns nonzero (the call returns -EIO)
\* or 0 (the call returns 0 with the digest at the offset of the unverified
\* block in want_digest).
C24_FlagSetCases ==
    /\ [][\A hb \in HashBlocks :
            FlagSet(hb)
            => \E w \in IoSlots :
                  /\ io[w].buf = hb
                  /\ ~io[w].vl_skip
                  /\ Len(io'[w].log) = Len(io[w].log) + 1
                  /\ LastStep(w).block = hb
                  /\ \/ /\ io[w].pc = "vl_cmp"
                        /\ io[w].real_digest = io[w].want_digest
                        /\ LastStep(w).op = "cmp" /\ LastStep(w).res = "match"
                        /\ io[w].log[Len(io[w].log)].op =
                              (IF io[w].vl_retry = 0 THEN "sha2ce" ELSE "sha256")
                        /\ io[w].vl_retry \in {0, 1}
                     \/ /\ io[w].pc = "vl_fec"
                        /\ LastStep(w).op = "fec" /\ LastStep(w).res = "ok"]_vars
    /\ [][\A w \in IoSlots :
            (io'[w] # io[w] /\ io[w].pc = "vl_cmp")
            => (bufio'[io[w].buf].hash_verified
                <=> (bufio[io[w].buf].hash_verified
                     \/ io[w].real_digest = io[w].want_digest))]_vars
    /\ [][\A w \in IoSlots :
            (io'[w] # io[w]
             /\ \/ io[w].pc = "vl_he_ret"
                \/ io[w].pc = "he" /\ io[w].he_from = "level")
            => /\ \A hb \in HashBlocks :
                     bufio'[hb].hash_verified = bufio[hb].hash_verified
               /\ ~bufio[io[w].buf].hash_verified
               /\ io[w].pc = "vl_he_ret"
                  => IF io[w].he_ret # 0
                     THEN io'[w].r = -EIO /\ io'[w].pc = "io_hfb_ret"
                     ELSE io'[w].pc = "vl_copy"]_vars
    /\ [][\A w \in IoSlots :
            (/\ io'[w] # io[w] /\ io[w].pc = "vl_copy"
             /\ io[w].log[Len(io[w].log)].op = "he")
            => /\ ~bufio'[io[w].buf].hash_verified
               /\ io'[w].r = 0
               /\ io'[w].want_digest =
                     DigestAtOffset(bufio[io[w].buf].data, VlPos(io[w]).offset)]_vars

\* one request has set the flag of a hash block by a match of tfm_sha256
\* and has left another block unverified after verity_handle_err returned 0
C24_Witness ==
    \E w \in IoSlots :
        \E i, j \in LogIdx(w) :
            /\ i > 1
            /\ IsEv(w, i, "cmp", DM_VERITY_BLOCK_TYPE_METADATA, "match")
            /\ io[w].log[i - 1].op = "sha256"
            /\ bufio[io[w].log[i].block].hash_verified
            /\ IsEv(w, j, "he", DM_VERITY_BLOCK_TYPE_METADATA, "continue")
            /\ ~bufio[io[w].log[j].block].hash_verified
            /\ io[w].pc = "io_hfb_ret" /\ io[w].r = 0

\* the steps slot w records in the step
NewSteps(w) == SubSeq(io'[w].log, Len(io[w].log) + 1, Len(io'[w].log))

\* C25: verity_verify_level with skip_unverified = true on an unverified
\* block returns 1 and changes nothing else: it hashes with no engine,
\* calls neither verity_fec_decode nor verity_handle_err, leaves
\* hash_verified unset, the digest buffer as it was and corrupted_errs as
\* it was, and releases the buffer.  On a block with hash_verified set,
\* with either value of skip_unverified, it copies the digest at the
\* block's offset into the digest buffer and returns 0 without hashing.
C25_SkipAndVerified ==
    /\ [][\A w \in IoSlots :
            (/\ io[w].pc = "vl_read" /\ io'[w] # io[w]
             /\ NewSteps(w)[1].res = "unverified" /\ io[w].vl_skip)
            => LET hb == VlPos(io[w]).hash_block
               IN  /\ Len(NewSteps(w)) = 3
                   /\ NewSteps(w)[2].op = "rel" /\ NewSteps(w)[2].block = hb
                   /\ NewSteps(w)[3].op = "level"
                   /\ io'[w].r = 1
                   /\ io'[w].vl_want = io[w].want_digest
                   /\ bufio'[hb].present /\ ~bufio'[hb].hash_verified
                   /\ \A o \in HashBlocks \ {hb} : bufio'[o] = bufio[o]
                   /\ v' = v /\ uevents' = uevents /\ nv' = nv
                   /\ io'[w].buf = NoBuf]_vars
    /\ [][\A w \in IoSlots :
            (/\ io[w].pc = "vl_read" /\ io'[w] # io[w]
             /\ NewSteps(w)[1].res = "verified")
            => /\ Len(NewSteps(w)) = 1
               /\ io'[w].pc = "vl_copy"
               /\ io'[w].want_digest = io[w].want_digest
               /\ v' = v /\ uevents' = uevents]_vars
    /\ [][\A w \in IoSlots :
            (/\ io[w].pc = "vl_copy" /\ io'[w] # io[w]
             /\ io[w].log[Len(io[w].log)].op = "read")
            => /\ io[w].log[Len(io[w].log)].res = "verified"
               /\ io'[w].r = 0
               /\ io'[w].want_digest =
                     DigestAtOffset(bufio[io[w].buf].data, VlPos(io[w]).offset)
               /\ NewSteps(w)[1].op = "rel"
               /\ \A k \in 2 .. Len(NewSteps(w)) : NewSteps(w)[k].op = "level"
               /\ bufio' = bufio /\ v' = v /\ uevents' = uevents]_vars

\* a walk has skipped the unverified level-0 block, then found the top
\* level block verified in the loop (skip_unverified = false) and taken
\* its digest
C25_Witness ==
    \E w \in IoSlots :
        \E i \in LogIdx(w) :
            /\ i + 6 <= Len(io[w].log)
            /\ io[w].log[i].op = "hfb"
            /\ io[w].log[i + 2].res = "unverified"
            /\ io[w].log[i + 3].op = "rel"
            /\ io[w].log[i + 4].res = "verify"
            /\ io[w].log[i + 5].res = "verified"
            /\ io[w].log[i + 6].op = "rel"

(***************************************************************************)
(* verity_handle_err called by the workers of verify_wq at the same time.  *)
(* v->corrupted_errs is a plain field: the test of line 2691 and the read  *)
(* and the write of the ++ of line 2694 are separate accesses, and nothing *)
(* orders the accesses of two workers.                                     *)
(***************************************************************************)
MaxCntCalls == 3

InitCnt ==
    /\ \E mode \in {DM_VERITY_MODE_EIO, DM_VERITY_MODE_LOGGING},
          errs \in {0, DM_VERITY_MAX_CORRUPTED_ERRS - 2, DM_VERITY_MAX_CORRUPTED_ERRS - 1} :
          v = [verity_ctr(1, mode, FALSE, FALSE) EXCEPT !.corrupted_errs = errs]
    /\ hw_retry = FALSE
    /\ nv = 0
    /\ InitDevices(1)
    /\ io = [w \in IoSlots |-> [IoIdle EXCEPT !.pc = "caller"]]

\* a worker calls verity_handle_err: line 2689
cnt_call(w, type, block) ==
    /\ io[w].pc = "caller"
    /\ io[w].n_he < MaxCntCalls
    /\ io' = [io EXCEPT ![w] = [@ EXCEPT !.pc = "cnt_check", !.he_type = type,
                                         !.he_block = block, !.n_he = @ + 1]]
    /\ v' = [v EXCEPT !.hash_failed = HashFailedAfterErr(@)]
    /\ UNCHANGED <<hw_retry, nv, disk_data, disk_hash, bufio, uevents,
                   n_ios, n_faults, n_corrupt, n_evict>>

\* lines 2691-2692: the test against the maximum
cnt_check(w) ==
    /\ io[w].pc = "cnt_check"
    /\ io' = [io EXCEPT ![w] =
                IF CorruptedErrsSaturated(v.corrupted_errs)
                THEN [@ EXCEPT !.pc = "caller", !.he_ret = 1]
                ELSE [@ EXCEPT !.pc = "cnt_load"]]
    /\ UNCHANGED <<v, hw_retry, nv, disk_data, disk_hash, bufio, uevents,
                   n_ios, n_faults, n_corrupt, n_evict>>

\* line 2694: the read of v->corrupted_errs++ (he_pre is the value read)
cnt_load(w) ==
    /\ io[w].pc = "cnt_load"
    /\ io' = [io EXCEPT ![w] = [@ EXCEPT !.pc = "cnt_store", !.he_pre = v.corrupted_errs]]
    /\ UNCHANGED <<v, hw_retry, nv, disk_data, disk_hash, bufio, uevents,
                   n_ios, n_faults, n_corrupt, n_evict>>

\* line 2694: the write of v->corrupted_errs++, then lines 2707-2745
cnt_store(w) ==
    /\ io[w].pc = "cnt_store"
    /\ v' = [v EXCEPT !.corrupted_errs = io[w].he_pre + 1]
    /\ uevents' = uevents + 1
    /\ io' = [io EXCEPT ![w] =
                [@ EXCEPT !.pc = "caller", !.he_pre = 0,
                          !.he_ret = HandleErrModeRet(v.mode, hw_retry, 0)]]
    /\ UNCHANGED <<hw_retry, nv, disk_data, disk_hash, bufio,
                   n_ios, n_faults, n_corrupt, n_evict>>

NextCnt ==
    \E w \in IoSlots :
        \/ \E type \in BlockTypes, block \in {0, data_blocks - 1} : cnt_call(w, type, block)
        \/ cnt_check(w)
        \/ cnt_load(w)
        \/ cnt_store(w)

SpecCnt == InitCnt /\ [][NextCnt]_vars

\* C26: corrupted_errs is at most DM_VERITY_MAX_CORRUPTED_ERRS in every
\* reachable state, also when two workers are in verity_handle_err at the
\* same time with the test and the increment as separate steps, and it
\* never decreases.
C26_Original ==
    /\ [](v.corrupted_errs <= DM_VERITY_MAX_CORRUPTED_ERRS)
    /\ [][v'.corrupted_errs >= v.corrupted_errs]_vars

\* two workers passed the test at DM_VERITY_MAX_CORRUPTED_ERRS - 1 and both
\* incremented
C26_Witness ==
    /\ v.corrupted_errs = DM_VERITY_MAX_CORRUPTED_ERRS + 1
    /\ \A w \in IoSlots : io[w].pc = "caller" /\ io[w].he_ret # 1

(***************************************************************************)
(* C27: the data cursor of a request.                                      *)
(***************************************************************************)
\* slot w is inside verity_verify_io, at data block io[w].b of its request
InBlock(w) ==
    io[w].pc \in {"vl_read", "vl_hash", "vl_cmp", "vl_fec", "vl_he_ret", "vl_copy",
                  "he", "io_hfb_ret", "io_cmp", "io_fec", "io_he_ret"}

\* the data of block io[w].b has been hashed by slot w at least once
DataHashed(w) ==
    \/ io[w].retry_count > 0
    \/ io[w].pc \in {"io_cmp", "io_fec", "io_he_ret"}
    \/ io[w].pc = "he" /\ io[w].he_from = "io"

\* the cursor io->iter of slot w stands at the start of data block n of the bio
CursorAt(w, n) == io[w].iter = n * DataBlockSize

\* C27: in verity_verify_io the cursor io->iter stands at the start of data
\* block b while block b has not been hashed, and at the start of block b + 1
\* from the first hashing pass on (the pass with tfm_sha256 hashes the range
\* starting at the start of block b and leaves io->iter alone); a request
\* that verification has completed without error has its cursor at the end
\* of its last block.
C27_Original ==
    \A w \in IoSlots :
        /\ (InBlock(w) /\ ~DataHashed(w)) => CursorAt(w, io[w].b)
        /\ (InBlock(w) /\ DataHashed(w)) => CursorAt(w, io[w].b + 1)
        /\ io[w].pc = "io_cmp" => io[w].start = io[w].b * DataBlockSize
        /\ (io[w].pc = "done" /\ io[w].log # <<>> /\ io[w].bi_error = 0)
           => CursorAt(w, io[w].n_blocks)

\* a block was zero-filled on the second pass, after its data had been
\* hashed: the cursor has moved two blocks for one data block
C27_Witness ==
    \E w \in IoSlots :
        /\ io[w].log # <<>>
        /\ io[w].log[Len(io[w].log)].op = "zero"
        /\ \E i \in 1 .. Len(io[w].log) - 1 :
              /\ io[w].log[i].op = "sha2ce"
              /\ io[w].log[i].type = DM_VERITY_BLOCK_TYPE_DATA
              /\ io[w].log[i].block = io[w].log[Len(io[w].log)].block
        /\ io[w].iter = (io[w].log[Len(io[w].log)].b + 2) * DataBlockSize

(***************************************************************************)
(* C28: completion of requests, with the workers of verify_wq scheduled    *)
(* fairly.                                                                 *)
(***************************************************************************)
\* the steps of the work item of slot w: verity_work and all it calls
Worker(w) == verity_work(w) \/ VerifyIo(w) \/ VerifyLevel(w) \/ HandleErr(w)

\* requests accepted in a behaviour of SpecLive
MaxLiveIos == 1

\* the device is intact or has one damaged block when the target is built
InitLive ==
    /\ \E mode \in Modes, fec \in BOOLEAN, z \in BOOLEAN :
          v = verity_ctr(1, mode, fec, z)
    /\ hw_retry = (v.mode = DM_VERITY_MODE_RESTART)
    /\ nv = DM_MAX_ERR_COUNT - 1
    /\ \E j \in {-1} \cup DataBlocks :
          disk_data = [d \in DataBlocks |-> IF d = j THEN BadData(d) ELSE GoodData(d)]
    /\ \E k \in {-1} \cup HashBlocks :
          disk_hash = [hb \in HashBlocks |->
                          IF hb = k THEN BadHash(1, hb) ELSE GoodHash(1, hb)]
    /\ (disk_data = [d \in DataBlocks |-> GoodData(d)]
        \/ disk_hash = [hb \in HashBlocks |-> GoodHash(1, hb)])
    /\ bufio = [hb \in HashBlocks |-> NoBuffer]
    /\ uevents = 0
    /\ n_ios = 0 /\ n_faults = 0 /\ n_corrupt = 0 /\ n_evict = 0
    /\ io = [w \in IoSlots |-> IF w = 1 THEN IoIdle ELSE IoOff]

DispatchLive(w) ==
    \/ \E block \in DataBlocks, n \in 1 .. MaxReqBlocks :
          n_ios < MaxLiveIos /\ verity_map(w, block, n)
    \/ \E err \in {0, -EIO} : verity_end_io(w, err)
    \/ verity_work(w)
    \/ bio_endio(w)

NextLive ==
    \E w \in IoSlots : DispatchLive(w) \/ VerifyIo(w) \/ VerifyLevel(w) \/ HandleErr(w)

\* the workqueue runs every queued work item, and a running work item is
\* not held up for ever
SpecLive == InitLive /\ [][NextLive]_vars /\ \A w \in IoSlots : WF_vars(Worker(w))

\* slot w runs verity_verify_io
Verifying(w) == InBlock(w)

RECURSIVE U64Low(_, _)
\* the low n bits of the word x as a number
U64Low(x, n) == IF n = 0 THEN 0 ELSE U64Low(x, n - 1) + x[n] * Pow2(n - 1)

\* lines 2527-2543 on the target geo: position, hash_block, idx and offset
U64HashAtLevel(geo, version, dsize, block, level) ==
    LET position == U64Shr(block, level * geo.hash_per_block_bits)
        idx == U64Low(position, geo.hash_per_block_bits)
    IN  [hash_block |-> U64Add(geo.hash_level_block[level],
                               U64Shr(position, geo.hash_per_block_bits)),
         offset |-> IF version = 0 THEN idx * dsize
                    ELSE Shl(idx, geo.hash_dev_block_bits - geo.hash_per_block_bits)]

\* the first block after the region of a level: the start of the level
\* below, or the end of the hash area
LevelEnd(geo, level) ==
    IF level = 0 THEN geo.hash_blocks ELSE geo.hash_level_block[level - 1]

\* data blocks looked at: the first, the middle one and the last
GeoBlocks(blocks) ==
    {b \in {U64(0), U64Shr(blocks, 1), U64Sub(blocks, U64(1))} :
        U64Less(b, blocks)}

\* the digest of block at level lies in the region of the level and inside
\* its hash block
HashLocationInBounds(geo, version, dsize, block, level) ==
    LET at == U64HashAtLevel(geo, version, dsize, block, level)
    IN  /\ ~U64Less(at.hash_block, geo.hash_level_block[level])
        /\ U64Less(at.hash_block, LevelEnd(geo, level))
        /\ at.offset + dsize <= Pow2(geo.hash_dev_block_bits)

\* C29 as claimed: on every target verity_ctr has constructed, for every
\* data block below data_blocks and every level below levels, in version 0
\* and in version 1, the hash block verity_hash_at_level computes lies in
\* the region of the level (from hash_level_block[level] to the start of
\* the level below, or to hash_blocks for level 0) and offset + digest_size
\* is at most the hash block size.
C29_Original ==
    v.pc = "constructed"
    => \A version \in {0, 1}, level \in 0 .. v.geo.levels - 1 :
          \A block \in GeoBlocks(v.args.data_blocks) :
             HashLocationInBounds(v.geo, version, v.args.digest_size, block, level)

\* a target of 2^64 - 1 data blocks of 512 bytes has been constructed, and
\* the hash block of its last data block at level 0 is not below hash_blocks
C29_Witness ==
    /\ v.pc = "constructed"
    /\ v.args.data_blocks = U64Max
    /\ ~U64Less(U64HashAtLevel(v.geo, 1, v.args.digest_size,
                               U64Sub(v.args.data_blocks, U64(1)), 0).hash_block,
                v.geo.hash_blocks)
====
